---------------------------- MODULE Spec2Model ----------------------------
(***************************************************************************)
(* Model of the Mentat section manager for ~/.claude/CLAUDE.md             *)
(* (src/setup/utils/claude_config.py, class ClaudeConfigManager) and of    *)
(* the identifier validators of src/setup/utils/mentat_config.py.          *)
(*                                                                         *)
(* A document is a sequence of tokens.  A token is either the newline      *)
(* character or the text of one line of the vocabulary below; every        *)
(* search pattern of the code begins with a newline or with the first      *)
(* character of such a line.  Every token keeps its length in characters,  *)
(* so the code's character offsets (str.find results, idx + 1, start + 50, *)
(* start + 500) are computed as the code computes them.                    *)
(***************************************************************************)
EXTENDS Integers, Sequences, FiniteSets, TLC

(***************************************************************************)
(* Bounds of the model.                                                    *)
(***************************************************************************)
\* largest number of items in each of the three inventories
MaxItems == 1
\* largest number of pieces an initial document is made of
MaxPieces == 2
\* largest number of operations run one after the other
MaxOps == 2

(***************************************************************************)
(* Tokens.                                                                 *)
(***************************************************************************)
T(kind) == [k |-> kind]

NL == T("nl")        \* "\n"
DIV == T("div")      \* MENTAT_SECTION_START = MENTAT_SECTION_END: "# " and 51 "═"
HDR == T("hdr")      \* MENTAT_SECTION_HEADER
INTRO == T("intro")  \* "# Mentat = Personal Claude Code customization framework"
BUILT == T("built")  \* "# Built on SuperClaude v4.0.8 | Add features as needed"
EXT == T("ext")      \* "# Mentat Commands (Extensible)"
DOT == T("dot")      \* "# Mentat Commands (Dotfiles Sync)", as older versions wrote it
NOCMD == T("nocmd")  \* "# No Mentat commands installed"
AGH == T("agh")      \* "# Mentat Agents"
NOAGT == T("noagt")  \* "# No Mentat agents installed"
SCH == T("sch")      \* "# Mentat Scripts"
NOSCR == T("noscr")  \* "# No Mentat scripts installed"
USR == T("usr")      \* a line of user text that does not start with "#"
SC == T("sc")        \* "# SuperClaude Entry Point", a sibling section's header
SDIV == T("sdiv")    \* "# ═══════", a user's own shorter divider line

CmdLine(i) == [k |-> "cmd", n |-> i]      \* f"{cmd['name']:<20} # {cmd['desc']}"
AgentLine(i) == [k |-> "agt", n |-> i]    \* f"{agent['name']:<20} # {agent['desc']}"
ScriptLine(i) == [k |-> "scr", n |-> i]   \* f"# - {script['name']:<25} # {script['desc']}"
ConfLine(i) == [k |-> "conf", n |-> i]    \* "# Mentat Configuration" and its four "# - " lines
SecLine(i) == [k |-> "sec", n |-> i]      \* "# Mentat Security" and its five "# - " lines
CountLine(c, a, s) == [k |-> "count", c |-> c, a |-> a, s |-> s]

\* len() of a token's text
Width(t) ==
  CASE t.k = "nl" -> 1
    [] t.k = "div" -> 53
    [] t.k = "hdr" -> 29
    [] t.k = "intro" -> 55
    [] t.k = "built" -> 54
    [] t.k = "ext" -> 30
    [] t.k = "dot" -> 33
    [] t.k = "nocmd" -> 30
    [] t.k = "agh" -> 15
    [] t.k = "noagt" -> 28
    [] t.k = "conf" -> <<22, 40, 37, 36, 28>>[t.n]
    [] t.k = "sec" -> <<17, 39, 46, 45, 25, 21>>[t.n]
    [] t.k = "sch" -> 16
    [] t.k = "noscr" -> 29
    [] t.k = "usr" -> 9
    [] t.k = "sc" -> 25
    [] t.k = "sdiv" -> 9
    [] t.k = "cmd" -> 37      \* name padded to 20, " # ", "Mentat command"
    [] t.k = "agt" -> 35      \* name padded to 20, " # ", "Mentat agent"
    [] t.k = "scr" -> 48      \* "# - ", name padded to 25, " # ", "Core sync engine"
    [] t.k = "count" -> 55    \* counts of one digit each

(***************************************************************************)
(* Python's str operations on documents.                                   *)
(***************************************************************************)
\* The operators below walk a document by halving it, or from one match to
\* the next, so that their nesting stays shallow on long documents.

\* the length in characters of the tokens lo..hi of content
RECURSIVE SumWidth(_, _, _)
SumWidth(content, lo, hi) ==
  IF lo > hi THEN 0
  ELSE IF lo = hi THEN Width(content[lo])
  ELSE SumWidth(content, lo, (lo + hi) \div 2)
         + SumWidth(content, (lo + hi) \div 2 + 1, hi)

\* len(content)
PyLen(content) == SumWidth(content, 1, Len(content))

\* the offset of token i of content
Off(content, i) == SumWidth(content, 1, i - 1)

Min(S) == CHOOSE x \in S : \A y \in S : x <= y
Max(S) == CHOOSE x \in S : \A y \in S : x >= y

\* the first of the tokens lo..hi+1 that is at offset >= idx, token lo being
\* at offset base (token hi+1 when none of lo..hi is)
RECURSIVE Locate(_, _, _, _, _)
Locate(content, lo, hi, base, idx) ==
  IF base >= idx \/ lo > hi THEN lo
  ELSE IF lo = hi THEN lo + 1
  ELSE LET mid == (lo + hi) \div 2
           next == base + SumWidth(content, lo, mid)
       IN IF next >= idx
            THEN Locate(content, lo, mid, base, idx)
            ELSE Locate(content, mid + 1, hi, next, idx)

\* the index of the first token at offset >= idx (Len + 1 when there is none)
IndexOf(content, idx) == Locate(content, 1, Len(content), 0, idx)

\* A pattern is a sequence of sets of token kinds: the tokens a piece of the
\* searched text can be (the last piece of a pattern is a prefix of a line).
MatchAt(content, i, pat) ==
  /\ i + Len(pat) - 1 <= Len(content)
  /\ \A j \in 1..Len(pat) : content[i + j - 1].k \in pat[j]

\* the indexes, from token first on, where pat is found
MatchesFrom(content, pat, first) ==
  {i \in first..Len(content) : MatchAt(content, i, pat)}

\* content.find(pat, start): the lowest offset >= start where pat is found, or -1
Find(content, pat, start) ==
  LET hits == MatchesFrom(content, pat, IndexOf(content, start))
  IN IF hits = {} THEN -1 ELSE Off(content, Min(hits))

\* pat in content
Contains(content, pat) == MatchesFrom(content, pat, 1) # {}

\* content[:idx]
Upto(content, idx) == SubSeq(content, 1, IndexOf(content, idx) - 1)

\* content[idx:]
From(content, idx) == SubSeq(content, IndexOf(content, idx), Len(content))

\* content.endswith('\n')
EndsWithNewline(content) == Len(content) > 0 /\ content[Len(content)] = NL


\* the while loop "idx = content.find(pattern, search_pos) ... search_pos = idx + 1":
\* every offset at which the pattern is found
RECURSIVE FindAll(_, _, _)
FindAll(content, pat, search_pos) ==
  LET idx == Find(content, pat, search_pos)
  IN IF idx = -1 THEN {} ELSE {idx} \cup FindAll(content, pat, idx + 1)

\* "\n".join(lines)
RECURSIVE JoinLines(_)
JoinLines(lines) ==
  IF Len(lines) = 0 THEN <<>>
  ELSE IF Len(lines) = 1 THEN <<lines[1]>>
  ELSE <<lines[1], NL>> \o JoinLines(Tail(lines))

(***************************************************************************)
(* The searched texts of claude_config.py, as patterns.                    *)
(***************************************************************************)
\* the kinds of the lines that start with "# "
HashKinds ==
  {"div", "hdr", "intro", "built", "ext", "dot", "nocmd", "agh", "noagt", "conf", "sec",
   "sch", "noscr", "sc", "sdiv", "scr", "count"}

\* MENTAT_SECTION_START + "\n" + MENTAT_SECTION_HEADER
start_pattern == <<{"div"}, {"nl"}, {"hdr"}>>

\* MENTAT_SECTION_HEADER
header_pattern == <<{"hdr"}>>

orphan_patterns ==
  << <<{"nl"}, {"intro"}>>,     \* "\n# Mentat = Personal Claude Code customization framework"
     <<{"nl"}, {"dot"}>>,       \* "\n# Mentat Commands (Dotfiles"
     <<{"nl"}, {"ext"}>> >>     \* "\n# Mentat Commands (Extensible)"

\* "# Component Count:"
component_count_pattern == <<{"count"}>>

newline_pattern == <<{"nl"}>>

\* end_markers of _clean_duplicate_sections
clean_end_markers ==
  << <<{"nl"}, {"nl"}, {"div", "sdiv"}>>,   \* "\n\n# ═══════"
     <<{"nl"}, {"nl"}, {"sc"}>>,            \* "\n\n# SuperClaude"
     <<{"nl"}, {"nl"}, {}>>,                \* "\n\n# Core": no line of the model starts so
     <<{"nl"}, {"intro"}>>,                 \* "\n# Mentat = Personal"
     <<{"nl"}, {"dot", "ext"}>> >>          \* "\n# Mentat Commands"

\* next_section_markers of update_claude_md
update_end_markers ==
  << <<{"nl"}, {"nl"}, {"div", "sdiv"}>>,   \* "\n\n# ═══════"
     <<{"nl"}, {"nl"}, {"sc"}>>,            \* "\n\n# SuperClaude"
     <<{"nl"}, {"nl"}, {}>> >>              \* "\n\n# Core Framework"

\* next_section_markers of remove_mentat_section
remove_end_markers ==
  << <<{"nl"}, {"div", "sdiv"}>>,           \* "\n# ═══════"
     <<{"nl"}, {"nl"}, HashKinds>> >>       \* "\n\n# "

\* "for marker in markers: idx = content.find(marker, search_start);
\*  if idx != -1 and idx < end_idx: end_idx = idx", from end_idx = len(content)
NearestMarker(content, markers, search_start) ==
  LET found == {Find(content, markers[m], search_start) : m \in 1..Len(markers)}
      nearer == {idx \in found : idx # -1 /\ idx < PyLen(content)}
  IN IF nearer = {} THEN PyLen(content) ELSE Min(nearer)

(***************************************************************************)
(* _generate_mentat_section and the three formatters.                      *)
(***************************************************************************)
_format_commands(commands) ==
  IF commands = <<>> THEN <<NOCMD>> ELSE JoinLines([i \in 1..Len(commands) |-> CmdLine(commands[i])])

\* _format_agents without its "if not agents" branch
FormatAgentsWithoutPlaceholder(agents) == JoinLines([i \in 1..Len(agents) |-> AgentLine(agents[i])])

_format_agents(agents) ==
  IF agents = <<>> THEN <<NOAGT>> ELSE JoinLines([i \in 1..Len(agents) |-> AgentLine(agents[i])])

_format_scripts(scripts) ==
  IF scripts = <<>> THEN <<NOSCR>> ELSE JoinLines([i \in 1..Len(scripts) |-> ScriptLine(scripts[i])])

_generate_mentat_section(I) ==
  <<NL, DIV, NL, HDR, NL, DIV, NL, NL, INTRO, NL, BUILT, NL, NL, EXT, NL>>
    \o _format_commands(I.commands)
    \o <<NL, NL, AGH, NL>>
    \o _format_agents(I.agents)
    \o <<NL, NL>> \o JoinLines([i \in 1..5 |-> ConfLine(i)])
    \o <<NL, NL>> \o JoinLines([i \in 1..6 |-> SecLine(i)])
    \o <<NL, NL, SCH, NL>>
    \o _format_scripts(I.scripts)
    \o <<NL, NL, CountLine(Len(I.commands), Len(I.agents), Len(I.scripts)), NL>>

(***************************************************************************)
(* _clean_duplicate_sections.                                              *)
(***************************************************************************)
\* the offsets of the proper sections (Pattern 1)
ProperSections(content) == FindAll(content, start_pattern, 0)

\* the offsets of the orphaned blocks (Pattern 2): those not within 500
\* characters after the start of a proper section
OrphanSections(content) ==
  LET proper == ProperSections(content)
      is_part_of_proper(idx) == \E start \in proper : start <= idx /\ idx <= start + 500
  IN UNION {{idx \in FindAll(content, orphan_patterns[p], 0) : ~is_part_of_proper(idx)}
              : p \in 1..Len(orphan_patterns)}

sections_to_remove(content) == ProperSections(content) \cup OrphanSections(content)

\* one turn of "for start_idx, section_type in reversed(sections_to_remove)"
RemoveSection(cleaned, start_idx) ==
  LET component_count_idx == Find(cleaned, component_count_pattern, start_idx)
      end_idx ==
        IF component_count_idx # -1
          THEN Find(cleaned, newline_pattern, component_count_idx) + 1
          ELSE NearestMarker(cleaned, clean_end_markers, start_idx + 50)
  IN Upto(cleaned, start_idx) \o From(cleaned, end_idx)

RECURSIVE RemoveSections(_, _)
RemoveSections(cleaned, starts) ==
  IF starts = {} THEN cleaned
  ELSE RemoveSections(RemoveSection(cleaned, Max(starts)), starts \ {Max(starts)})

\* content.replace(n newlines, n - 1 newlines): every occurrence, left to
\* right, none overlapping another
RECURSIVE ReplaceNewlines(_, _)
ReplaceNewlines(content, n) ==
  LET hits == MatchesFrom(content, [j \in 1..n |-> {"nl"}], 1)
  IN IF hits = {} THEN content
     ELSE SubSeq(content, 1, Min(hits) - 1)
            \o [j \in 1..(n - 1) |-> NL]
            \o ReplaceNewlines(SubSeq(content, Min(hits) + n, Len(content)), n)

\* while n newlines in content: content = content.replace(...)
RECURSIVE CollapseNewlines(_, _)
CollapseNewlines(content, n) ==
  IF Contains(content, [j \in 1..n |-> {"nl"}])
    THEN CollapseNewlines(ReplaceNewlines(content, n), n)
    ELSE content

\* the index of the first token after token i that is not a newline
\* (Len + 1 when there is none)
AfterNewlines(content, i) ==
  Min({j \in (i + 1)..Len(content) : content[j] # NL} \cup {Len(content) + 1})

\* divider_pattern is matched at token i: a divider line, a newline, white
\* space (of which the model has newlines only), and a divider line
DividerPairAt(cleaned, i) ==
  /\ cleaned[i] = DIV
  /\ AfterNewlines(cleaned, i) >= i + 2
  /\ AfterNewlines(cleaned, i) <= Len(cleaned)
  /\ cleaned[AfterNewlines(cleaned, i)] = DIV

DividerPairs(cleaned) == {i \in 1..Len(cleaned) : DividerPairAt(cleaned, i)}

\* re.sub(divider_pattern, '', cleaned): every match, left to right, none
\* overlapping another
RECURSIVE SubDividerPair(_)
SubDividerPair(cleaned) ==
  LET hits == DividerPairs(cleaned)
  IN IF hits = {} THEN cleaned
     ELSE SubSeq(cleaned, 1, Min(hits) - 1)
            \o SubDividerPair(
                 SubSeq(cleaned, AfterNewlines(cleaned, Min(hits)) + 1, Len(cleaned)))

\* while re.search(divider_pattern, cleaned): cleaned = re.sub(...)
RECURSIVE RemoveDividerPairs(_)
RemoveDividerPairs(cleaned) ==
  IF DividerPairs(cleaned) # {}
    THEN RemoveDividerPairs(SubDividerPair(cleaned))
    ELSE cleaned

\* lone_divider is matched at token i: a newline, a divider line, two or
\* more newlines, before a line that starts "# ═══════"
LoneDividerAt(cleaned, i) ==
  /\ i + 1 <= Len(cleaned)
  /\ cleaned[i] = NL
  /\ cleaned[i + 1] = DIV
  /\ AfterNewlines(cleaned, i + 1) >= i + 4
  /\ AfterNewlines(cleaned, i + 1) <= Len(cleaned)
  /\ cleaned[AfterNewlines(cleaned, i + 1)].k \in {"div", "sdiv"}

\* re.sub(lone_divider, '\n\n', cleaned)
RECURSIVE SubLoneDivider(_)
SubLoneDivider(cleaned) ==
  LET hits == {i \in 1..Len(cleaned) : LoneDividerAt(cleaned, i)}
  IN IF hits = {} THEN cleaned
     ELSE SubSeq(cleaned, 1, Min(hits) - 1)
            \o <<NL, NL>>
            \o SubLoneDivider(
                 SubSeq(cleaned, AfterNewlines(cleaned, Min(hits) + 1), Len(cleaned)))

_clean_duplicate_sections(content) ==
  IF sections_to_remove(content) # {}
    THEN SubLoneDivider(
           RemoveDividerPairs(
             CollapseNewlines(
               RemoveSections(content, sections_to_remove(content)), 4)))
    ELSE content

(***************************************************************************)
(* update_claude_md and remove_mentat_section: the documents they write.   *)
(***************************************************************************)
\* len(start_marker)
StartMarkerLen == Width(DIV) + Width(NL) + Width(HDR)

\* the content update_claude_md writes (lines 316-369)
UpdatedContent(old, I) ==
  LET content == _clean_duplicate_sections(old)
      new_section == _generate_mentat_section(I)
      start_idx == Find(content, start_pattern, 0)
      component_count_idx == Find(content, component_count_pattern, start_idx)
      end_of_line == Find(content, newline_pattern, component_count_idx)
      end_idx ==
        IF component_count_idx # -1
          THEN (IF end_of_line # -1 THEN end_of_line + 1 ELSE PyLen(content))
          ELSE NearestMarker(content, update_end_markers,
                             start_idx + StartMarkerLen + 100)
  IN IF Contains(content, header_pattern)
       THEN IF start_idx # -1
              THEN Upto(content, start_idx) \o new_section \o From(content, end_idx)
              ELSE content \o <<NL>> \o new_section
       ELSE (IF content # <<>> /\ ~EndsWithNewline(content)
               THEN content \o <<NL>> ELSE content) \o new_section

\* whether remove_mentat_section gets to write the file (lines 393, 400)
RemoveWrites(content) ==
  Contains(content, header_pattern) /\ Find(content, start_pattern, 0) # -1

\* the content remove_mentat_section writes (lines 396-418)
RemovedContent(content) ==
  LET start_idx == Find(content, start_pattern, 0)
      end_idx == NearestMarker(content, remove_end_markers, start_idx + StartMarkerLen)
  IN CollapseNewlines(Upto(content, start_idx) \o From(content, end_idx), 3)

(***************************************************************************)
(* MentatConfig._validate_github_username.  A string is a sequence of      *)
(* characters.                                                             *)
(***************************************************************************)
Digits == {"0", "1", "2", "3", "4", "5", "6", "7", "8", "9"}

LowerCase ==
  {"a", "b", "c", "d", "e", "f", "g", "h", "i", "j", "k", "l", "m",
   "n", "o", "p", "q", "r", "s", "t", "u", "v", "w", "x", "y", "z"}

UpperCase ==
  {"A", "B", "C", "D", "E", "F", "G", "H", "I", "J", "K", "L", "M",
   "N", "O", "P", "Q", "R", "S", "T", "U", "V", "W", "X", "Y", "Z"}

\* [a-zA-Z0-9]
AlphaNum == LowerCase \cup UpperCase \cup Digits

\* sub in text, for a string sub
HasSubstring(text, sub) ==
  \E i \in 0..(Len(text) - Len(sub)) : SubSeq(text, i + 1, i + Len(sub)) = sub

\* dangerous_chars (line 271)
dangerous_chars ==
  { <<";">>, <<"|">>, <<"&">>, <<"$">>, <<"`">>, <<"\\">>, <<"\"">>, <<"'">>,
    <<"\n">>, <<"\r">>, <<"<">>, <<">">>, <<"/">>, <<".", ".">> }

\* the whole of text is [a-zA-Z0-9]([a-zA-Z0-9-]{0,37}[a-zA-Z0-9])?
UsernameShape(text) ==
  /\ Len(text) >= 1
  /\ text[1] \in AlphaNum
  /\ \/ Len(text) = 1
     \/ /\ Len(text) - 2 <= 37
        /\ \A i \in 2..(Len(text) - 1) : text[i] \in AlphaNum \cup {"-"}
        /\ text[Len(text)] \in AlphaNum

\* re.match(r'^[a-zA-Z0-9]([a-zA-Z0-9-]{0,37}[a-zA-Z0-9])?$', username):
\* "$" matches at the end and before a newline that ends the string
MatchesUsernamePattern(username) ==
  \/ UsernameShape(username)
  \/ /\ Len(username) >= 1
     /\ username[Len(username)] = "\n"
     /\ UsernameShape(SubSeq(username, 1, Len(username) - 1))

\* _validate_github_username without its check for shell metacharacters
ValidateUsernameWithoutMetacharCheck(username) ==
  IF username = <<>> \/ Len(username) > 39 THEN FALSE
  ELSE MatchesUsernamePattern(username)

_validate_github_username(username) ==
  IF username = <<>> \/ Len(username) > 39 THEN FALSE
  ELSE IF \E char \in dangerous_chars : HasSubstring(username, char) THEN FALSE
  ELSE MatchesUsernamePattern(username)

(***************************************************************************)
(* MentatConfig._validate_repo_url.                                        *)
(***************************************************************************)
\* "git@github.com:"
GitPrefix ==
  <<"g", "i", "t", "@", "g", "i", "t", "h", "u", "b", ".", "c", "o", "m", ":">>

\* "https://github.com/"
HttpsPrefix ==
  <<"h", "t", "t", "p", "s", ":", "/", "/",
    "g", "i", "t", "h", "u", "b", ".", "c", "o", "m", "/">>

\* ".git"
DotGit == <<".", "g", "i", "t">>

\* text.startswith(prefix)
StartsWith(text, prefix) ==
  Len(text) >= Len(prefix) /\ SubSeq(text, 1, Len(prefix)) = prefix

\* the whole of text is
\* prefix [a-zA-Z0-9][a-zA-Z0-9-]{0,38}/[a-zA-Z0-9][a-zA-Z0-9._-]{0,100}\.git
RepoUrlShape(text, prefix) ==
  /\ StartsWith(text, prefix)
  /\ \E a \in 1..39 :
       LET p == Len(prefix)
           r == Len(text) - p - a - 1 - Len(DotGit)
       IN /\ r >= 1 /\ r <= 101
          /\ text[p + 1] \in AlphaNum
          /\ \A i \in (p + 2)..(p + a) : text[i] \in AlphaNum \cup {"-"}
          /\ text[p + a + 1] = "/"
          /\ text[p + a + 2] \in AlphaNum
          /\ \A i \in (p + a + 3)..(p + a + 1 + r) :
               text[i] \in AlphaNum \cup {".", "_", "-"}
          /\ SubSeq(text, p + a + 2 + r, Len(text)) = DotGit

\* re.match(r'^...$', url): "$" matches at the end and before a newline that
\* ends the string
MatchesRepoUrlPattern(url, prefix) ==
  \/ RepoUrlShape(url, prefix)
  \/ /\ Len(url) >= 1
     /\ url[Len(url)] = "\n"
     /\ RepoUrlShape(SubSeq(url, 1, Len(url) - 1), prefix)

\* text.replace(sub, ''), for a sub that cannot overlap itself
Without(text, sub) ==
  LET starts == {i \in 1..(Len(text) - Len(sub) + 1) :
                   SubSeq(text, i, i + Len(sub) - 1) = sub}
      keep == {i \in 1..Len(text) :
                 \A st \in starts : i < st \/ i >= st + Len(sub)}
  IN [j \in 1..Cardinality(keep) |->
        text[CHOOSE i \in keep : Cardinality({k \in keep : k <= i}) = j]]

_validate_repo_url(url) ==
  IF ~(MatchesRepoUrlPattern(url, GitPrefix) \/ MatchesRepoUrlPattern(url, HttpsPrefix))
    THEN FALSE
  ELSE IF \/ HasSubstring(url, <<".", ".">>)
          \/ HasSubstring(Without(Without(url, <<"h", "t", "t", "p", "s", ":", "/", "/">>),
                                  <<"g", "i", "t", "@">>),
                          <<"/", "/">>)
    THEN FALSE
  ELSE TRUE

(***************************************************************************)
(* SSHAuthHelper._validate_email.                                          *)
(***************************************************************************)
Letters == LowerCase \cup UpperCase

\* the whole of text is [a-zA-Z0-9._%+-]+@[a-zA-Z0-9.-]+\.[a-zA-Z]{2,}
EmailShape(text) ==
  \E at \in 2..Len(text) : \E dot \in (at + 2)..(Len(text) - 2) :
    /\ \A i \in 1..(at - 1) : text[i] \in AlphaNum \cup {".", "_", "%", "+", "-"}
    /\ text[at] = "@"
    /\ \A i \in (at + 1)..(dot - 1) : text[i] \in AlphaNum \cup {".", "-"}
    /\ text[dot] = "."
    /\ \A i \in (dot + 1)..Len(text) : text[i] \in Letters

\* re.match(email_pattern, email)
MatchesEmailPattern(email) ==
  \/ EmailShape(email)
  \/ /\ Len(email) >= 1
     /\ email[Len(email)] = "\n"
     /\ EmailShape(SubSeq(email, 1, Len(email) - 1))

\* dangerous_chars of _validate_email (line 112)
email_dangerous_chars ==
  { <<";">>, <<"|">>, <<"&">>, <<"$">>, <<"`">>, <<"\\">>, <<"\"">>, <<"'">>,
    <<"\n">>, <<"\r">>, <<"<">>, <<">">> }

_validate_email(email) ==
  IF email = <<>> \/ Len(email) > 254 THEN FALSE
  ELSE IF \E char \in email_dangerous_chars : HasSubstring(email, char) THEN FALSE
  ELSE MatchesEmailPattern(email)

(***************************************************************************)
(* The state: the file ~/.claude/CLAUDE.md, the installed inventory, what  *)
(* the calls made so far did, the last call of a validator, the files of   *)
(* ~/.ssh with the agent and the position of the SSH setup flow, and the   *)
(* configuration with the position of the configuration wizard.            *)
(***************************************************************************)
VARIABLES
  exists,     \* whether CLAUDE.md exists
  file,       \* its content (<<>> when it does not exist)
  mode,       \* its permission bits
  inv,        \* what _scan_commands, _scan_agents and _scan_scripts find
  hist,       \* the calls made: [op, ret, wrote]
  before,     \* the content of the file when the last call began
  wanted,     \* the content the last call computed for writing
  validator,  \* the validator called last ("none" before the first call)
  input,      \* the string it was given
  verdict,    \* what it returned
  ssh_dir,    \* the mode of ~/.ssh (Absent when there is none)
  known_hosts, \* ~/.ssh/known_hosts: [mode, content]
  priv,       \* for each key type, the private key file: [mode, content]
  pub,        \* for each key type, the public key file: [mode, content]
  agent,      \* the agents started, the one the environment points to, its keys
  pc,         \* where the SSH setup flow stands
  frame,      \* its local variables
  ssh_ret,    \* what setup_ssh_interactive returned ("none" while it runs)
  log,        \* the external steps the flow took, in order
  config,     \* self.config of MentatConfig
  config_file,\* ~/.mentat/config.json ("none" when there is none)
  wpc,        \* where configure_interactive stands
  wizard      \* what its last pass read and returned

docvars == <<exists, file, mode, inv, hist, before, wanted>>
valvars == <<validator, input, verdict>>
sshvars == <<ssh_dir, known_hosts, priv, pub, agent, pc, frame, ssh_ret, log>>
cfgvars == <<config, config_file, wpc, wizard>>
vars ==
  <<exists, file, mode, inv, hist, before, wanted, validator, input, verdict,
    ssh_dir, known_hosts, priv, pub, agent, pc, frame, ssh_ret, log,
    config, config_file, wpc, wizard>>

\* the lists 1..n, n <= MaxItems
Listings == {[i \in 1..n |-> i] : n \in 0..MaxItems}

Inventories == [commands : Listings, agents : Listings, scripts : Listings]

EmptyInventory == [commands |-> <<>>, agents |-> <<>>, scripts |-> <<>>]

\* MaxItems commands, agents and scripts
FullInventory ==
  [commands |-> [i \in 1..MaxItems |-> i],
   agents |-> [i \in 1..MaxItems |-> i],
   scripts |-> [i \in 1..MaxItems |-> i]]

\* a block as update_claude_md wrote it when nothing was installed
OldBlock == Tail(_generate_mentat_section(EmptyInventory))

\* what an initial document is made of
Pieces ==
  { <<USR, NL>>,                                  \* a line of user text
    <<NL>>,                                       \* a blank line
    <<DIV, NL>>,                                  \* a divider line
    <<HDR, NL>>,                                  \* the header line alone
    <<SC, NL>>,                                   \* a sibling section's header
    <<SDIV, NL>>,                                 \* a short divider line
    OldBlock,                                     \* a proper block
    SubSeq(OldBlock, 1, 11),                      \* a proper block cut short
    SubSeq(OldBlock, 8, Len(OldBlock)),           \* an orphan fragment
    <<DOT, NL, CmdLine(1), NL>> }                 \* an older orphan fragment

RECURSIVE Compositions(_)
Compositions(n) ==
  IF n = 0 THEN {<<>>}
  ELSE Compositions(n - 1)
         \cup {d \o p : d \in Compositions(n - 1), p \in Pieces}

\* content without its last newline
Chomp(content) ==
  IF EndsWithNewline(content) THEN SubSeq(content, 1, Len(content) - 1) ELSE content

\* the initial documents: with or without a newline at the end
Documents == Compositions(MaxPieces) \cup {Chomp(d) : d \in Compositions(MaxPieces)}

\* no validator was called
NoValidation == validator = "none" /\ input = <<>> /\ verdict = FALSE

\* a file or directory that does not exist
Absent == -1

\* self.ssh_key_types (lines 22-26): the key types in the order of the list
ssh_key_types == <<"ed25519", "rsa", "ecdsa">>

KeyTypes == {ssh_key_types[i] : i \in 1..Len(ssh_key_types)}

NoFile == [mode |-> Absent, content |-> "none"]

\* os.environ without SSH_AUTH_SOCK and SSH_AGENT_PID
NoEnviron == [SSH_AUTH_SOCK |-> <<>>, SSH_AGENT_PID |-> <<>>]

\* no agent was started and the environment points to none
NoAgent == [started |-> 0, environ |-> NoEnviron, loaded |-> {}]

\* the local variables of the SSH setup flow before it is called
NoFrame ==
  [key_type |-> "none", public_key_file |-> "unbound", outcome |-> "none",
   tries |-> 0, email |-> <<>>]

\* no ~/.ssh, no agent, the SSH setup flow is not running
NoSsh ==
  /\ ssh_dir = Absent
  /\ known_hosts = NoFile
  /\ priv = [t \in KeyTypes |-> NoFile]
  /\ pub = [t \in KeyTypes |-> NoFile]
  /\ agent = NoAgent
  /\ pc = "idle" /\ frame = NoFrame /\ ssh_ret = "none" /\ log = <<>>

\* the defaults of load_config (lines 35-43)
DefaultConfig ==
  [dotfiles_repo |-> <<>>, repo_type |-> "private", auth_method |-> "ssh",
   sync_branch |-> "main", auto_sync |-> TRUE, configured |-> FALSE]

\* ~/.mentat/config.json has not been written
NoConfigFile == [dir_mode |-> Absent, mode |-> Absent, content |-> DefaultConfig]

\* configure_interactive has not run; at_call is what self.config and the
\* file were when it was called
NoPass ==
  [choice |-> "none", repo_url |-> <<>>, accepted |-> FALSE, ret |-> "none",
   setups |-> 0, at_call |-> [config |-> DefaultConfig, file |-> NoConfigFile]]

\* the default configuration, unsaved; the wizard is not running
NoConfig ==
  /\ config = DefaultConfig /\ config_file = NoConfigFile
  /\ wpc = "idle" /\ wizard = NoPass

\* the states a run starts in, for the documents and inventories given
InitFrom(documents, inventories) ==
  /\ exists \in BOOLEAN
  /\ file \in (IF exists THEN documents ELSE {<<>>})
  /\ mode \in (IF exists THEN {420, 384} ELSE {0})   \* 0o644, 0o600
  /\ inv \in inventories
  /\ hist = <<>>
  /\ before = file
  /\ wanted = file
  /\ NoValidation /\ NoSsh /\ NoConfig

Init == InitFrom(Documents, {EmptyInventory, FullInventory})

\* the content a write leaves when it fails after open(path, 'w') truncated
\* the file: nothing, or the first part of the data
PartialWrites(content) == {<<>>, SubSeq(content, 1, Len(content) \div 2)}

\* the mode open(path, 'w') gives a file it creates: 0o666 & ~umask
CreatedModes == {420, 384}   \* umask 0o022, umask 0o077

Record(name, result, wrote) ==
  hist' = Append(hist, [op |-> name, ret |-> result, wrote |-> wrote])

\* update_claude_md (lines 303-382)
UpdateClaudeMd ==
  /\ Len(hist) < MaxOps
  /\ before' = file
  /\ wanted' = UpdatedContent(file, inv)
  /\ UNCHANGED <<inv, valvars, sshvars, cfgvars>>
  /\ \/ \* the file is written and chmod 0o644 follows
        /\ exists' = TRUE
        /\ file' = wanted'
        /\ mode' = 420
        /\ Record("update", TRUE, TRUE)
     \/ \* open() for reading or for writing raises: except -> return False
        /\ UNCHANGED <<exists, file, mode>>
        /\ Record("update", FALSE, FALSE)
     \/ \* f.write raises after open(path, 'w') truncated the file
        /\ exists' = TRUE
        /\ file' \in PartialWrites(wanted')
        /\ mode' \in (IF exists THEN {mode} ELSE CreatedModes)
        /\ Record("update", FALSE, TRUE)

\* remove_mentat_section (lines 384-430)
RemoveMentatSection ==
  /\ Len(hist) < MaxOps
  /\ before' = file
  /\ UNCHANGED <<inv, valvars, sshvars, cfgvars>>
  /\ \/ \* nothing to remove: not exists, no header, or no start marker
        /\ ~exists \/ ~RemoveWrites(file)
        /\ wanted' = file
        /\ UNCHANGED <<exists, file, mode>>
        /\ Record("remove", TRUE, FALSE)
     \/ \* the section is cut out and the file written; no chmod follows
        /\ exists /\ RemoveWrites(file)
        /\ wanted' = RemovedContent(file)
        /\ file' = wanted'
        /\ UNCHANGED <<exists, mode>>
        /\ Record("remove", TRUE, TRUE)
     \/ \* open() raises: except -> return False
        /\ exists
        /\ wanted' = file
        /\ UNCHANGED <<exists, file, mode>>
        /\ Record("remove", FALSE, FALSE)
     \/ \* f.write raises after open(path, 'w') truncated the file
        /\ exists /\ RemoveWrites(file)
        /\ wanted' = RemovedContent(file)
        /\ file' \in PartialWrites(wanted')
        /\ UNCHANGED <<exists, mode>>
        /\ Record("remove", FALSE, TRUE)

Next == UpdateClaudeMd \/ RemoveMentatSection

Spec == Init /\ [][Next]_vars

(***************************************************************************)
(* Documents that hold two proper blocks and one orphan fragment, in any   *)
(* order, with or without user text between and after them.                *)
(***************************************************************************)
OrphanFragment == SubSeq(OldBlock, 8, Len(OldBlock))

HealOrders ==
  { <<OrphanFragment, OldBlock, OldBlock>>,
    <<OldBlock, OrphanFragment, OldBlock>>,
    <<OldBlock, OldBlock, OrphanFragment>> }

UserText == {<<>>, <<USR, NL>>}

HealCompositions ==
  {o[1] \o u1 \o o[2] \o u2 \o o[3] \o u3 :
     o \in HealOrders, u1 \in UserText, u2 \in UserText, u3 \in UserText}

HealDocuments == HealCompositions \cup {Chomp(d) : d \in HealCompositions}

InitHeal == InitFrom(HealDocuments, {EmptyInventory, FullInventory})

SpecHeal == InitHeal /\ [][Next]_vars

(***************************************************************************)
(* Every inventory, on a few documents.                                    *)
(***************************************************************************)
RenderDocuments == {<<>>, <<USR, NL>>, OldBlock}

InitRender == InitFrom(RenderDocuments, Inventories)

SpecRender == InitRender /\ [][Next]_vars

(***************************************************************************)
(* Calls of _validate_github_username.                                     *)
(***************************************************************************)
\* the longest of the short strings tried
MaxNameLen == 3

NameAlphabet == {"a", "Z", "7", "-", ".", "'", "_", "\n"}

RECURSIVE Strings(_)
Strings(n) ==
  IF n = 0 THEN {<<>>}
  ELSE Strings(n - 1) \cup {t \o <<c>> : t \in Strings(n - 1), c \in NameAlphabet}

Repeat(c, n) == [i \in 1..n |-> c]

\* strings around the length limit
LongNames ==
  UNION {{Repeat("a", n),
          Repeat("a", n - 1) \o <<"-">>,
          <<"a", "-", "-">> \o Repeat("b", n - 3),
          Repeat("a", n - 1) \o <<"\n">>} : n \in {38, 39, 40}}

Robert == <<"r", "o", "b", "e", "r", "t", "'", ";", " ", "r", "m", " ", "-", "r", "f">>
DashAbc == <<"-", "a", "b", "c">>
Abc123 == <<"a", "b", "c", "1", "2", "3">>

Usernames == Strings(MaxNameLen) \cup LongNames \cup {Robert, DashAbc, Abc123}

\* a string is given; no document is at stake
InitUser ==
  /\ exists = FALSE /\ file = <<>> /\ mode = 0 /\ inv = EmptyInventory
  /\ hist = <<>> /\ before = <<>> /\ wanted = <<>>
  /\ validator = "none" /\ input \in Usernames /\ verdict = FALSE
  /\ NoSsh /\ NoConfig

\* the call self._validate_github_username(input)
ValidateGithubUsername ==
  /\ validator = "none"
  /\ validator' = "username"
  /\ verdict' = _validate_github_username(input)
  /\ UNCHANGED <<input, docvars, sshvars, cfgvars>>

NextUser == ValidateGithubUsername

SpecUser == InitUser /\ [][NextUser]_vars

(***************************************************************************)
(* Calls of _validate_repo_url and of _validate_email.                     *)
(***************************************************************************)
\* the longest account, repository, local part and domain put together from
\* an alphabet
MaxPartLen == 2

RECURSIVE StringsOver(_, _)
StringsOver(alphabet, n) ==
  IF n = 0 THEN {<<>>}
  ELSE StringsOver(alphabet, n - 1)
         \cup {t \o <<c>> : t \in StringsOver(alphabet, n - 1), c \in alphabet}

\* "http://github.com/"
HttpPrefix ==
  <<"h", "t", "t", "p", ":", "/", "/",
    "g", "i", "t", "h", "u", "b", ".", "c", "o", "m", "/">>

UrlHeads == {GitPrefix, HttpsPrefix, HttpPrefix, <<" ">> \o GitPrefix}

Accounts ==
  StringsOver({"a", "-", "7"}, MaxPartLen) \cup {Repeat("a", 39), Repeat("a", 40)}

Repos ==
  StringsOver({"b", ".", "_", "/"}, MaxPartLen)
    \cup {Repeat("b", 101), Repeat("b", 102)}

UrlTails == {DotGit, DotGit \o <<"\n">>, DotGit \o <<"x">>, <<>>}

\* "https://github.com/a/../b.git"
TraversalUrl == HttpsPrefix \o <<"a", "/", ".", ".", "/", "b">> \o DotGit

Urls ==
  {h \o a \o <<"/">> \o r \o t :
     h \in UrlHeads, a \in Accounts, r \in Repos, t \in UrlTails}
    \cup {TraversalUrl}

\* no document, no SSH setup and no configuration is at stake
NoDocument ==
  /\ exists = FALSE /\ file = <<>> /\ mode = 0 /\ inv = EmptyInventory
  /\ hist = <<>> /\ before = <<>> /\ wanted = <<>>

InitUrl ==
  /\ NoDocument /\ NoSsh /\ NoConfig
  /\ validator = "none" /\ input \in Urls /\ verdict = FALSE

\* the call self._validate_repo_url(input)
ValidateRepoUrl ==
  /\ validator = "none"
  /\ validator' = "url"
  /\ verdict' = _validate_repo_url(input)
  /\ UNCHANGED <<input, docvars, sshvars, cfgvars>>

NextUrl == ValidateRepoUrl

SpecUrl == InitUrl /\ [][NextUrl]_vars

LocalParts == StringsOver({"a", ".", "/", ";"}, MaxPartLen + 1)

AtSigns == {<<"@">>, <<>>, <<"@", "@">>}

Domains == StringsOver({"b", ".", "-", "/"}, MaxPartLen)

TopLevels ==
  {<<".", "c", "o">>, <<".", "c">>, <<>>, <<".", "c", "o", "\n">>, <<".", "c", "7">>}

\* addresses around the length limit
LongEmails == {Repeat("a", n - 5) \o <<"@", "b", ".", "c", "o">> : n \in {254, 255}}

Emails ==
  {l \o a \o d \o t : l \in LocalParts, a \in AtSigns, d \in Domains, t \in TopLevels}
    \cup LongEmails

InitEmail ==
  /\ NoDocument /\ NoSsh /\ NoConfig
  /\ validator = "none" /\ input \in Emails /\ verdict = FALSE

\* the call self._validate_email(input)
ValidateEmail ==
  /\ validator = "none"
  /\ validator' = "email"
  /\ verdict' = _validate_email(input)
  /\ UNCHANGED <<input, docvars, sshvars, cfgvars>>

NextEmail == ValidateEmail

SpecEmail == InitEmail /\ [][NextEmail]_vars

(***************************************************************************)
(* SSHAuthHelper: the agent, the probe of the remote host, the key files.  *)
(* The statements of _generate_new_key are given the meaning of            *)
(* try / except / finally, lines 205-212 being the finally block as they   *)
(* are indented.  As the file stands "except" (line 214) follows "finally" *)
(* (line 204), which Python rejects with a SyntaxError.                    *)
(***************************************************************************)
\* 0o700, 0o600, 0o644, 0o077, 0o133, 0o755
owner_only == 448
private_mode == 384
public_mode == 420
group_other_bits == 63
public_excess_bits == 91
world_readable_dir == 493

\* a & b
RECURSIVE BitAnd(_, _)
BitAnd(a, b) ==
  IF a = 0 \/ b = 0 THEN 0
  ELSE (a % 2) * (b % 2) + 2 * BitAnd(a \div 2, b \div 2)

\* The output of "ssh-agent -s" is a sequence of lines, a line a sequence of
\* pieces of text: a variable name, "=", ";", the socket or the pid of the
\* agent started, other text.
Piece(kind, text, id) == [t |-> kind, v |-> text, id |-> id]
Name(text) == Piece("name", text, 0)
Equals == Piece("=", "=", 0)
Semicolon == Piece(";", ";", 0)
Text(text) == Piece("text", text, 0)
Socket(id) == Piece("socket", "agent", id)
Pid(id) == Piece("pid", "pid", id)

\* the places ssh-agent makes its socket in: under /tmp, or under a TMPDIR
\* whose name holds "="
SocketPaths(id) == {<<Socket(id)>>, <<Text("/tmp/a"), Equals, Socket(id)>>}

\* SSH_AUTH_SOCK=<path>; export SSH_AUTH_SOCK;
\* SSH_AGENT_PID=<pid>; export SSH_AGENT_PID;
\* echo Agent pid <pid>;
AgentOutput(id, path) ==
  << <<Name("SSH_AUTH_SOCK"), Equals>> \o path
       \o <<Semicolon, Text(" export SSH_AUTH_SOCK"), Semicolon>>,
     <<Name("SSH_AGENT_PID"), Equals, Pid(id), Semicolon,
       Text(" export SSH_AGENT_PID"), Semicolon>>,
     <<Text("echo Agent pid "), Pid(id), Semicolon>> >>

\* line.split(';')[0]
BeforeSemicolon(line) ==
  LET semis == {i \in 1..Len(line) : line[i] = Semicolon}
  IN IF semis = {} THEN line ELSE SubSeq(line, 1, Min(semis) - 1)

\* one line of the loop of _start_ssh_agent (lines 349-352)
ParseAgentLine(environ, line) ==
  LET head == BeforeSemicolon(line)
      eqs == {i \in 1..Len(head) : head[i] = Equals}
      eq == Min(eqs)
  IN IF line # <<>> /\ line[1].t = "name" /\ Cardinality(eqs) = 1
       THEN [environ EXCEPT ![head[1].v] = SubSeq(head, eq + 1, Len(head))]
       ELSE environ

\* the loop over result.stdout.split('\n') (lines 348-352)
RECURSIVE ParseAgentOutput(_, _)
ParseAgentOutput(environ, stdout) ==
  IF stdout = <<>> THEN environ
  ELSE ParseAgentOutput(ParseAgentLine(environ, Head(stdout)), Tail(stdout))

\* an agent answers on the socket SSH_AUTH_SOCK names
Reachable(ag) ==
  \E id \in 1..ag.started : ag.environ.SSH_AUTH_SOCK = <<Socket(id)>>

\* the exit status of "ssh-add -l"
SshAddList(ag) ==
  IF ~Reachable(ag) THEN 2 ELSE IF ag.loaded = {} THEN 1 ELSE 0

_check_ssh_agent(ag) == SshAddList(ag) \in {0, 1}

\* the result of the probe "ssh -T git@github.com" when it ran
NoProbe == [raised |-> "no", returncode |-> 0, stdout |-> <<>>, stderr |-> <<>>]

\* what the log keeps of a step
Event(name, ok) ==
  [ev |-> name, ok |-> ok, key_type |-> "none", key_exists |-> FALSE,
   reachable |-> FALSE, dir_mode |-> Absent, file |-> NoFile, probe |-> NoProbe]

\* _start_ssh_agent (lines 333-358): the agent afterwards, the steps taken,
\* the value returned
StartAgentOutcomes(ag) ==
  IF _check_ssh_agent(ag)
    THEN {[agent |-> ag, events |-> <<>>, ret |-> TRUE]}
    ELSE {[agent |-> ag,
           events |-> <<[Event("ssh-agent", FALSE) EXCEPT !.reachable = Reachable(ag)]>>,
           ret |-> FALSE]}
         \cup
         {[agent |-> [started |-> ag.started + 1,
                      environ |-> ParseAgentOutput(ag.environ,
                                    AgentOutput(ag.started + 1, path)),
                      loaded |-> {}],
           events |-> <<[Event("ssh-agent", TRUE) EXCEPT !.reachable = Reachable(ag)]>>,
           ret |-> TRUE] : path \in SocketPaths(ag.started + 1)}

\* _add_key_to_agent(key_file) (lines 360-378) for the key of key_type;
\* "ssh-add <key>" can succeed when an agent is reachable and the file holds
\* a key
AddKeyOutcomes(ag, key_type, key_exists) ==
  UNION {
    IF ~s.ret
      THEN {[agent |-> s.agent, events |-> s.events, ret |-> FALSE]}
      ELSE {[agent |-> IF added THEN [s.agent EXCEPT !.loaded = @ \cup {key_type}]
                       ELSE s.agent,
             events |-> Append(s.events,
                          [Event("ssh-add", added) EXCEPT
                             !.key_type = key_type,
                             !.key_exists = key_exists,
                             !.reachable = Reachable(s.agent)]),
             ret |-> added] :
              added \in (IF Reachable(s.agent) /\ key_exists
                           THEN {TRUE, FALSE} ELSE {FALSE})}
    : s \in StartAgentOutcomes(ag)}

\* the text GitHub answers a probe it authenticated
success_text == "successfully authenticated"

\* a key the remote host can know: a private key file of ~/.ssh or a key of
\* the agent
CanAuthenticate(keys, ag) ==
  \/ \E t \in KeyTypes : keys[t].content \in {"old", "new"}
  \/ Reachable(ag) /\ ag.loaded # {}

\* what subprocess.run(["ssh", "-T", "git@github.com"], timeout=10) gives
ProbeResults(keys, ag) ==
  {[raised |-> "TimeoutExpired", returncode |-> 0, stdout |-> <<>>, stderr |-> <<>>],
   [raised |-> "FileNotFoundError", returncode |-> 0, stdout |-> <<>>, stderr |-> <<>>],
   [raised |-> "no", returncode |-> 255, stdout |-> <<>>,
    stderr |-> <<"git@github.com: Permission denied (publickey).">>],
   [raised |-> "no", returncode |-> 0, stdout |-> <<success_text>>, stderr |-> <<>>]}
  \cup
  (IF CanAuthenticate(keys, ag)
     THEN {[raised |-> "no", returncode |-> rc, stdout |-> <<>>,
            stderr |-> <<"Hi!", success_text, "but no shell access">>] :
             rc \in {0, 1, 255}}
     ELSE {})

\* _verify_github_auth by the exit status of the probe
VerifyByExitStatus(result) ==
  result.raised = "no" /\ result.returncode = 0

\* _verify_github_auth (lines 397-415), for the result of its probe
_verify_github_auth(result) ==
  IF result.raised # "no" THEN FALSE
  ELSE \E i \in 1..Len(result.stderr) : result.stderr[i] = success_text

\* the private key file left as ssh-keygen made it
KeepPrivateMode(file_mode) == file_mode

\* the mode of the private key file after the check of line 200
FixPrivateMode(file_mode) ==
  IF BitAnd(file_mode, group_other_bits) # 0 THEN private_mode ELSE file_mode

\* the mode of the public key file after the check of line 202
FixPublicMode(file_mode) ==
  IF file_mode # Absent /\ BitAnd(file_mode, public_excess_bits) # 0
    THEN public_mode ELSE file_mode

(***************************************************************************)
(* The SSH setup flow: setup_ssh_interactive and what it calls.            *)
(***************************************************************************)
\* how often "Try again?" of _setup_github_key is answered yes
MaxTries == 1

OldKey(file_mode) == [mode |-> file_mode, content |-> "old"]

NoKeys == [t \in KeyTypes |-> NoFile]

\* the key files found in ~/.ssh: none, a key pair, a private key that is
\* too permissive and has no public key, two key pairs
KeyLayouts ==
  { [priv |-> NoKeys, pub |-> NoKeys],
    [priv |-> [NoKeys EXCEPT !["ed25519"] = OldKey(private_mode)],
     pub |-> [NoKeys EXCEPT !["ed25519"] = OldKey(public_mode)]],
    [priv |-> [NoKeys EXCEPT !["ed25519"] = OldKey(public_mode)],
     pub |-> NoKeys],
    [priv |-> [NoKeys EXCEPT !["ed25519"] = OldKey(private_mode),
                             !["rsa"] = OldKey(private_mode)],
     pub |-> [NoKeys EXCEPT !["ed25519"] = OldKey(public_mode),
                            !["rsa"] = OldKey(public_mode)]] }

\* an agent the environment points to
RunningAgent ==
  [started |-> 1,
   environ |-> [SSH_AUTH_SOCK |-> <<Socket(1)>>, SSH_AGENT_PID |-> <<Pid(1)>>],
   loaded |-> {}]

\* the files and the agent setup_ssh_interactive can find
SshWorlds ==
  /\ \E layout \in KeyLayouts :
       /\ priv = layout.priv /\ pub = layout.pub
       /\ ssh_dir \in (IF layout.priv = NoKeys THEN {Absent} ELSE {})
                        \cup {owner_only, world_readable_dir}
  /\ agent \in {NoAgent, RunningAgent}
  /\ known_hosts = NoFile
  /\ frame = NoFrame /\ ssh_ret = "none" /\ log = <<>>

\* setup_ssh_interactive() is called
InitKey ==
  /\ NoDocument /\ NoValidation /\ NoConfig
  /\ SshWorlds
  /\ pc = "called"

\* "return value" of the flow
Return(value) == pc' = "returned" /\ ssh_ret' = value

\* the addresses typed at the prompt of _generate_new_key
FlowEmails ==
  {<<"a", "@", "b", ".", "c", "o">>, <<"a", ";", "@", "b", ".", "c", "o">>}

\* the modes ssh-keygen can leave on the files it writes
KeygenModes == {private_mode, public_mode, world_readable_dir}

KeyExists(key_type) == priv[key_type].mode # Absent

\* the file holds a key (not the empty file touch() makes)
HoldsKey(key_type) == priv[key_type].content \in {"old", "new"}

\* setup_ssh_interactive (lines 58-99)
SetupSshInteractive ==
  /\ pc = "called"
  /\ \E result \in ProbeResults(priv, agent), reconfigure \in BOOLEAN,
        choice \in {"1", "2", "3", "other"} :
       LET github_verified == _verify_github_auth(result)
       IN /\ log' = Append(log, [Event("inspect", github_verified) EXCEPT
                                   !.probe = result,
                                   !.reachable = _check_ssh_agent(agent)])
          /\ IF github_verified /\ ~reconfigure THEN Return("True")
             ELSE IF choice = "1" THEN pc' = "generate" /\ UNCHANGED ssh_ret
             ELSE IF choice = "2" THEN pc' = "existing" /\ UNCHANGED ssh_ret
             ELSE Return("False")
  /\ UNCHANGED <<ssh_dir, known_hosts, priv, pub, agent, frame, docvars, valvars, cfgvars>>

\* generation without the question of line 149
OverwriteNeverRefused(key_exists, answer) == FALSE

\* lines 147-150: an existing key and "Overwrite existing key?" answered no
OverwriteRefused(key_exists, answer) == key_exists /\ ~answer

\* generation without the check of lines 123-127
EmailNeverRejected(email) == FALSE

\* lines 123-127: "if not self._validate_email(email): ... return False"
EmailRejected(email) == ~_validate_email(email)

\* _generate_new_key up to the try statement (lines 118-160)
GenerateNewKey ==
  /\ pc = "generate"
  /\ \E email \in FlowEmails, idx \in 1..Len(ssh_key_types), answer \in BOOLEAN :
       LET key_type == ssh_key_types[idx]
       IN IF EmailRejected(email)
            THEN Return("False") /\ UNCHANGED <<frame, log>>
            ELSE /\ UNCHANGED ssh_ret
                 /\ log' = IF KeyExists(key_type)
                             THEN Append(log, [Event("overwrite?", answer) EXCEPT
                                                 !.key_type = key_type,
                                                 !.key_exists = HoldsKey(key_type),
                                                 !.file = priv[key_type]])
                             ELSE log
                 /\ IF OverwriteRefused(KeyExists(key_type), answer)
                      THEN pc' = "existing" /\ UNCHANGED frame
                      ELSE /\ pc' = "try"
                           /\ frame' = [NoFrame EXCEPT !.key_type = key_type,
                                                       !.email = email]
  /\ UNCHANGED <<ssh_dir, known_hosts, priv, pub, agent, docvars, valvars, cfgvars>>

\* the try block of _generate_new_key and its handler (lines 162-203, 214-217)
TryGenerate ==
  LET key_type == frame.key_type
      \* mkdir(mode=0o700, exist_ok=True) under umask 0o077
      dir == IF ssh_dir = Absent
               THEN BitAnd(owner_only, 511 - group_other_bits) ELSE ssh_dir
      \* key_file.touch(mode=0o600) under umask 0o077
      touched == IF KeyExists(key_type) THEN priv[key_type]
                 ELSE [mode |-> BitAnd(private_mode, 511 - group_other_bits),
                       content |-> "empty"]
      touch == [Event("touch", TRUE) EXCEPT
                  !.key_type = key_type, !.key_exists = HoldsKey(key_type),
                  !.dir_mode = dir, !.file = priv[key_type]]
      keygen(ok) == [Event("ssh-keygen", ok) EXCEPT
                       !.key_type = key_type, !.key_exists = HoldsKey(key_type),
                       !.dir_mode = dir, !.file = priv[key_type]]
  IN /\ pc = "try"
     /\ pc' = "finally"
     /\ \/ \* mkdir raises: public_key_file is never assigned
           /\ log' = Append(log, Event("mkdir", FALSE))
           /\ frame' = [frame EXCEPT !.outcome = "mkdir_raised"]
           /\ UNCHANGED <<ssh_dir, priv, pub>>
        \/ \* subprocess.run raises: ssh-keygen cannot be started
           /\ ssh_dir' = dir
           /\ priv' = [priv EXCEPT ![key_type] = touched]
           /\ UNCHANGED pub
           /\ log' = Append(log, touch)
           /\ frame' = [frame EXCEPT !.outcome = "keygen_raised",
                                     !.public_key_file = "bound"]
        \/ \* ssh-keygen exits with a non-zero status: both files are unlinked
           /\ ssh_dir' = dir
           /\ priv' = [priv EXCEPT ![key_type] = NoFile]
           /\ pub' = [pub EXCEPT ![key_type] = NoFile]
           /\ log' = log \o <<touch, keygen(FALSE)>>
           /\ frame' = [frame EXCEPT !.outcome = "keygen_failed",
                                     !.public_key_file = "bound"]
        \/ \* ssh-keygen exits with 0: the modes are looked at and corrected
           /\ ssh_dir' = dir
           /\ \E private \in KeygenModes, public \in KeygenModes :
                /\ priv' = [priv EXCEPT ![key_type] =
                              [mode |-> FixPrivateMode(private), content |-> "new"]]
                /\ pub' = [pub EXCEPT ![key_type] =
                             [mode |-> FixPublicMode(public), content |-> "new"]]
                /\ log' = log \o <<touch,
                                    [keygen(TRUE) EXCEPT
                                       !.file = [mode |-> private, content |-> "new"]]>>
           /\ frame' = [frame EXCEPT !.outcome = "generated",
                                     !.public_key_file = "bound"]
     /\ UNCHANGED <<known_hosts, agent, ssh_ret, docvars, valvars, cfgvars>>

\* the finally block of _generate_new_key (lines 205-212)
FinallyAddKey ==
  /\ pc = "finally"
  /\ \E o \in AddKeyOutcomes(agent, frame.key_type, HoldsKey(frame.key_type)) :
       /\ agent' = o.agent
       /\ log' = log \o o.events
  /\ IF frame.public_key_file = "unbound"
       THEN Return("raised")     \* UnboundLocalError at line 212
       ELSE pc' = "guide" /\ UNCHANGED ssh_ret
  /\ UNCHANGED <<ssh_dir, known_hosts, priv, pub, frame, docvars, valvars, cfgvars>>

\* _use_existing_key (lines 219-268)
UseExistingKey ==
  LET existing_keys == SelectSeq(ssh_key_types, KeyExists)
  IN /\ pc = "existing"
     /\ IF existing_keys = <<>>
          THEN /\ pc' = "generate"
               /\ UNCHANGED <<agent, frame, ssh_ret, log>>
          ELSE \E idx \in 1..Len(existing_keys) :
                 LET selected_key == existing_keys[idx]
                 IN \E o \in AddKeyOutcomes(agent, selected_key, HoldsKey(selected_key)) :
                    \E result \in ProbeResults(priv, o.agent) :
                      /\ agent' = o.agent
                      /\ frame' = [frame EXCEPT !.key_type = selected_key,
                                                !.public_key_file = "bound"]
                      /\ log' = log \o o.events
                                  \o <<[Event("verify", _verify_github_auth(result))
                                          EXCEPT !.probe = result,
                                                 !.key_type = selected_key]>>
                      /\ IF _verify_github_auth(result) THEN Return("True")
                         ELSE IF pub[selected_key].mode # Absent
                           THEN pc' = "guide" /\ UNCHANGED ssh_ret
                         ELSE Return("False")
     /\ UNCHANGED <<ssh_dir, known_hosts, priv, pub, docvars, valvars, cfgvars>>

\* _setup_github_key (lines 270-317)
SetupGithubKey ==
  LET key_type == frame.key_type
  IN /\ pc = "guide"
     /\ IF pub[key_type].mode = Absent
          THEN Return("False") /\ UNCHANGED <<frame, log>>   \* open() raises
          ELSE \E result \in ProbeResults(priv, agent) :
               \E again \in (IF frame.tries < MaxTries THEN BOOLEAN ELSE {FALSE}) :
                 /\ log' = log \o <<[Event("guide", TRUE) EXCEPT
                                       !.key_type = key_type,
                                       !.key_exists = HoldsKey(key_type)],
                                    [Event("verify", _verify_github_auth(result))
                                       EXCEPT !.probe = result,
                                              !.key_type = key_type]>>
                 /\ IF _verify_github_auth(result)
                      THEN Return("True") /\ UNCHANGED frame
                    ELSE IF again
                      THEN /\ frame' = [frame EXCEPT !.tries = @ + 1]
                           /\ UNCHANGED <<pc, ssh_ret>>
                    ELSE Return("False") /\ UNCHANGED frame
     /\ UNCHANGED <<ssh_dir, known_hosts, priv, pub, agent, docvars, valvars, cfgvars>>

NextKey ==
  \/ SetupSshInteractive
  \/ GenerateNewKey
  \/ TryGenerate
  \/ FinallyAddKey
  \/ UseExistingKey
  \/ SetupGithubKey

SpecKey == InitKey /\ [][NextKey]_vars

(***************************************************************************)
(* configure_interactive (mentat_config.py, lines 63-257) as a step        *)
(* machine.  wpc is the position of the wizard: at "ssh" and "retry" it    *)
(* waits for setup_ssh_interactive, whose steps are the actions of the     *)
(* SSH flow above.  "return self.configure_interactive()" starts the       *)
(* wizard again with the configuration it has.                             *)
(***************************************************************************)
MaxSetups == 1

\* str.strip()
Whitespace == {" ", "\t", "\n"}

Strip(text) ==
  LET inked == {i \in 1..Len(text) : text[i] \notin Whitespace}
  IN IF inked = {} THEN <<>>
     ELSE SubSeq(text, CHOOSE i \in inked : \A k \in inked : i <= k,
                       CHOOSE i \in inked : \A k \in inked : i >= k)

\* str.lower(), for the letters of "skip" and "create"
LowerOf ==
  [ch \in {"S", "K", "I", "P", "C", "R", "E", "A", "T"} |->
     CASE ch = "S" -> "s" [] ch = "K" -> "k" [] ch = "I" -> "i"
       [] ch = "P" -> "p" [] ch = "C" -> "c" [] ch = "R" -> "r"
       [] ch = "E" -> "e" [] ch = "A" -> "a" [] ch = "T" -> "t"]

Lower(text) ==
  [i \in 1..Len(text) |->
     IF text[i] \in DOMAIN LowerOf THEN LowerOf[text[i]] ELSE text[i]]

OldSshUrl == GitPrefix \o <<"o", "/", "d">> \o DotGit

OldHttpsUrl == HttpsPrefix \o <<"o", "/", "d">> \o DotGit

\* a config.json that open(path, 'w') emptied and json.dump did not finish:
\* json.load raises on it
TruncatedJson ==
  [dotfiles_repo |-> <<>>, repo_type |-> "", auth_method |-> "",
   sync_branch |-> "", auto_sync |-> FALSE, configured |-> FALSE]

\* save_config, line 49: self.config_dir.mkdir(mode=0o700, exist_ok=True)
MakeConfigDir(cf) ==
  [cf EXCEPT !.dir_mode = IF @ = Absent THEN owner_only ELSE @]

\* save_config, line 52: open(self.config_file, 'w') empties the file, or
\* creates it with the mode 0o666 & ~umask
OpenConfigFile(cf, created) ==
  [cf EXCEPT !.mode = IF @ = Absent THEN created ELSE @, !.content = TruncatedJson]

\* save_config, line 53: json.dump(self.config, f, indent=2)
DumpConfig(cf, cfg) == [cf EXCEPT !.content = cfg]

\* save_config, line 56: self.config_file.chmod(0o600)
ChmodConfigFile(cf) == [cf EXCEPT !.mode = private_mode]

\* save_config (lines 45-61) from its call to its return: the file it
\* leaves, and whether it returns True
SaveConfigOutcomes(cfg, cf) ==
  {[ok |-> FALSE, file |-> cf],                                \* mkdir raises
   [ok |-> FALSE, file |-> MakeConfigDir(cf)]}                 \* open raises
  \cup UNION {
    LET opened == OpenConfigFile(MakeConfigDir(cf), created)
    IN {[ok |-> FALSE, file |-> opened],                       \* json.dump raises
        [ok |-> FALSE, file |-> DumpConfig(opened, cfg)],      \* chmod raises
        [ok |-> TRUE, file |-> ChmodConfigFile(DumpConfig(opened, cfg))]}
    : created \in CreatedModes}

\* load_config (lines 24-43): the defaults, or what an earlier run saved
PreviousConfigs ==
  {DefaultConfig,
   [DefaultConfig EXCEPT !.dotfiles_repo = OldSshUrl, !.configured = TRUE],
   [DefaultConfig EXCEPT !.dotfiles_repo = OldHttpsUrl, !.auth_method = "https",
                         !.repo_type = "public", !.configured = TRUE]}

\* what is typed at "Enter your GitHub username"
WizardUsernames == {<<"a">>, <<" ", "a", " ">>, <<"a", ";">>}

\* what is typed at "Repository name [dotfiles]"
WizardRepoNames == {<<>>, <<"b">>, <<"b", "/", "c">>}

Dotfiles == <<"d", "o", "t", "f", "i", "l", "e", "s">>

\* what is typed at "Repository URL"
CustomUrls ==
  {GitPrefix \o <<"a", "/", "b">> \o DotGit,
   <<" ">> \o HttpsPrefix \o <<"a", "/", "b">> \o DotGit \o <<" ">>,
   HttpPrefix \o <<"a", "/", "b">> \o DotGit,
   HttpsPrefix \o <<"a", "/", ".", ".", "/", "b">> \o DotGit,
   <<"S", "k", "i", "p">>, <<"C", "R", "E", "A", "T", "E">>, <<>>}

\* no detection: the transport configured before
KeepAuthMethod(previous, repo_url) == previous

\* lines 172-178: the transport the URL shows, else the one configured before
DetectAuthMethod(previous, repo_url) ==
  IF StartsWith(repo_url, <<"g", "i", "t", "@">>) THEN "ssh"
  ELSE IF StartsWith(repo_url, <<"h", "t", "t", "p", "s", ":", "/", "/">>) THEN "https"
  ELSE previous

\* configure_interactive() is called on a MentatConfig that loaded its file
InitConfig ==
  /\ NoDocument /\ NoValidation
  /\ priv = [NoKeys EXCEPT !["ed25519"] = OldKey(private_mode)]
  /\ pub = [NoKeys EXCEPT !["ed25519"] = OldKey(public_mode)]
  /\ ssh_dir = owner_only
  /\ known_hosts = NoFile
  /\ agent \in {NoAgent, RunningAgent}
  /\ frame = NoFrame /\ ssh_ret = "none" /\ log = <<>> /\ pc = "idle"
  /\ config \in PreviousConfigs
  /\ config_file = IF config.configured
                     THEN [dir_mode |-> owner_only, mode |-> private_mode,
                           content |-> config]
                     ELSE NoConfigFile
  /\ wpc = "start"
  /\ wizard = [NoPass EXCEPT !.at_call = [config |-> config, file |-> config_file]]

WizardReturn(value) ==
  /\ wpc' = "returned"
  /\ wizard' = [wizard EXCEPT !.ret = value]

\* "return self.configure_interactive()"
Restart ==
  /\ wpc' = "start"
  /\ wizard' = [wizard EXCEPT !.choice = "none", !.repo_url = <<>>]

\* self.ssh_helper.setup_ssh_interactive() is entered
CallSetupSsh ==
  /\ pc' = "called" /\ frame' = NoFrame /\ ssh_ret' = "none" /\ log' = <<>>
  /\ UNCHANGED <<ssh_dir, known_hosts, priv, pub, agent>>

\* lines 63-81
ConfigureInteractive ==
  /\ wpc = "start"
  /\ \/ /\ config.dotfiles_repo = <<>>
        /\ wpc' = "menu" /\ UNCHANGED wizard
     \/ /\ config.dotfiles_repo # <<>>
        /\ \E change \in BOOLEAN :
             IF change THEN wpc' = "menu" /\ UNCHANGED wizard
             ELSE WizardReturn("True")
  /\ UNCHANGED <<config, config_file, docvars, valvars, sshvars>>

\* lines 90-154: the option typed at "Select option [1-5]"
SelectOption ==
  /\ wpc = "menu"
  /\ UNCHANGED <<config, config_file, docvars, valvars>>
  /\ \/ \E result \in ProbeResults(priv, agent) :          \* "1", lines 97-102
          IF _verify_github_auth(result)
            THEN /\ wpc' = "username"
                 /\ wizard' = [wizard EXCEPT !.choice = "1"]
                 /\ UNCHANGED sshvars
            ELSE /\ wizard.setups < MaxSetups
                 /\ wpc' = "ssh"
                 /\ wizard' = [wizard EXCEPT !.choice = "1", !.setups = @ + 1]
                 /\ CallSetupSsh
     \/ /\ wpc' = "username"                               \* "2"
        /\ wizard' = [wizard EXCEPT !.choice = "2"]
        /\ UNCHANGED sshvars
     \/ \E typed \in CustomUrls :                          \* "3", line 143
          /\ wpc' = "url"
          /\ wizard' = [wizard EXCEPT !.choice = "3", !.repo_url = Strip(typed)]
          /\ UNCHANGED sshvars
     \/ Restart /\ UNCHANGED sshvars                       \* "4", anything else
     \/ /\ wpc' = "url"                                    \* "5"
        /\ wizard' = [wizard EXCEPT !.choice = "5", !.repo_url = <<"s", "k", "i", "p">>]
        /\ UNCHANGED sshvars

\* lines 100-102: setup_ssh_interactive has returned
AfterSetupSsh ==
  /\ wpc = "ssh" /\ pc = "returned"
  /\ IF ssh_ret = "True" THEN wpc' = "username" /\ UNCHANGED wizard
     ELSE IF ssh_ret = "False" THEN Restart
     ELSE WizardReturn("raised")
  /\ pc' = "idle" /\ log' = <<>> /\ frame' = NoFrame /\ ssh_ret' = "none"
  /\ UNCHANGED <<ssh_dir, known_hosts, priv, pub, agent, config, config_file, docvars, valvars>>

\* lines 107-116 and 125-133: the account and the repository name
EnterRepository ==
  /\ wpc = "username"
  /\ \E typed \in WizardUsernames, name \in WizardRepoNames :
       LET username == Strip(typed)
           repo_name == IF Strip(name) = <<>> THEN Dotfiles ELSE Strip(name)
           front == IF wizard.choice = "1" THEN GitPrefix ELSE HttpsPrefix
       IN IF ~_validate_github_username(username) THEN Restart
          ELSE /\ wpc' = "url"
               /\ wizard' = [wizard EXCEPT
                               !.repo_url = front \o username \o <<"/">>
                                              \o repo_name \o DotGit]
  /\ UNCHANGED <<config, config_file, docvars, valvars, sshvars>>

\* lines 156-184: skip, create, the validation of the URL, the transport
RecordRepository ==
  /\ wpc = "url"
  /\ LET repo_url == wizard.repo_url
     IN IF Lower(repo_url) = <<"s", "k", "i", "p">>
          THEN WizardReturn("True") /\ UNCHANGED config
        ELSE IF Lower(repo_url) = <<"c", "r", "e", "a", "t", "e">>
          THEN Restart /\ UNCHANGED config
        ELSE IF ~_validate_repo_url(repo_url)
          THEN WizardReturn("False") /\ UNCHANGED config
        ELSE \E private \in BOOLEAN :
               /\ config' = [config EXCEPT
                               !.dotfiles_repo = repo_url,
                               !.auth_method = DetectAuthMethod(@, repo_url),
                               !.repo_type = IF private THEN "private" ELSE "public"]
               /\ wizard' = [wizard EXCEPT !.accepted = TRUE]
               /\ wpc' = "access"
  /\ UNCHANGED <<config_file, docvars, valvars, sshvars>>

\* lines 188-225: git ls-remote, and the offer to set up SSH when it failed
TestRepoAccess ==
  /\ wpc = "access"
  /\ UNCHANGED <<config, config_file, docvars, valvars>>
  /\ \E reached \in BOOLEAN, setup \in BOOLEAN :
       IF reached
         THEN wpc' = "prefs" /\ UNCHANGED <<wizard, sshvars>>
       ELSE IF StartsWith(wizard.repo_url, <<"g", "i", "t", "@">>) /\ setup
         THEN /\ wizard.setups < MaxSetups
              /\ wpc' = "retry"
              /\ wizard' = [wizard EXCEPT !.setups = @ + 1]
              /\ CallSetupSsh
       ELSE wpc' = "continue" /\ UNCHANGED <<wizard, sshvars>>

\* lines 219-225: setup_ssh_interactive has returned; the second test of the
\* access only prints
AfterRetrySetup ==
  /\ wpc = "retry" /\ pc = "returned"
  /\ IF ssh_ret \in {"True", "False"} THEN wpc' = "continue" /\ UNCHANGED wizard
     ELSE WizardReturn("raised")
  /\ pc' = "idle" /\ log' = <<>> /\ frame' = NoFrame /\ ssh_ret' = "none"
  /\ UNCHANGED <<ssh_dir, known_hosts, priv, pub, agent, config, config_file, docvars, valvars>>

\* lines 234-235: "Continue with this repository URL anyway?"
ConfirmContinue ==
  /\ wpc = "continue"
  /\ \E anyway \in BOOLEAN :
       IF anyway THEN wpc' = "prefs" /\ UNCHANGED wizard
       ELSE WizardReturn("False")
  /\ UNCHANGED <<config, config_file, docvars, valvars, sshvars>>

\* lines 238-257 with save_config (lines 45-61)
SavePreferences ==
  /\ wpc = "prefs"
  /\ \E auto_sync \in BOOLEAN, branch \in {"", "dev"} :
       /\ config' = [config EXCEPT
                       !.auto_sync = auto_sync,
                       !.sync_branch = IF branch = "" THEN "main" ELSE branch,
                       !.configured = TRUE]
       /\ \E saved \in SaveConfigOutcomes(config', config_file) :
            /\ config_file' = saved.file
            /\ WizardReturn(IF saved.ok THEN "True" ELSE "False")
  /\ UNCHANGED <<docvars, valvars, sshvars>>

NextConfig ==
  \/ ConfigureInteractive
  \/ SelectOption
  \/ AfterSetupSsh
  \/ EnterRepository
  \/ RecordRepository
  \/ TestRepoAccess
  \/ AfterRetrySetup
  \/ ConfirmContinue
  \/ SavePreferences
  \/ NextKey

SpecConfig == InitConfig /\ [][NextConfig]_vars

(***************************************************************************)
(* Calls of _clean_duplicate_sections on a document.                       *)
(***************************************************************************)
\* a block between a divider line and a header line
AdjacentDocument == <<DIV, NL>> \o OldBlock \o <<HDR, NL>>

CleanDocuments ==
  Documents \cup HealDocuments
    \cup {AdjacentDocument, <<USR, NL>> \o OldBlock \o <<USR, NL>>}

\* a document is given; nothing is written
InitClean ==
  /\ exists = TRUE /\ file \in CleanDocuments /\ mode = 420
  /\ inv = EmptyInventory /\ hist = <<>> /\ before = file /\ wanted = file
  /\ NoValidation /\ NoSsh /\ NoConfig

\* the call self._clean_duplicate_sections(content): wanted is what it returns
CleanDuplicateSections ==
  /\ hist = <<>>
  /\ before' = file
  /\ wanted' = _clean_duplicate_sections(file)
  /\ Record("clean", TRUE, FALSE)
  /\ UNCHANGED <<exists, file, mode, inv, valvars, sshvars, cfgvars>>

NextClean == CleanDuplicateSections

SpecClean == InitClean /\ [][NextClean]_vars

(***************************************************************************)
(* Documents made of user text, then one or two blocks or orphan           *)
(* fragments that each end with their "# Component Count:" line, then user *)
(* text.  The user's lines are told apart by their number.                 *)
(***************************************************************************)
UserLine(i) == [k |-> "usr", n |-> i]

\* the text before the blocks: nothing, a line, two lines with a blank line between
TextBefore ==
  {<<>>, <<UserLine(1), NL>>, <<UserLine(1), NL, NL, UserLine(2), NL>>}

\* the text after the blocks: nothing, a line, a blank line and two lines
TextAfter ==
  {<<>>, <<UserLine(3), NL>>, <<NL, UserLine(3), NL, UserLine(4), NL>>}

\* blocks as _generate_mentat_section writes them, and what is left of one
\* whose header lines were lost
Fragments ==
  {OldBlock, Tail(_generate_mentat_section(FullInventory)), OrphanFragment}

Middles == Fragments \cup {f \o g : f \in Fragments, g \in Fragments}

SurroundCompositions ==
  {u1 \o m \o u2 : u1 \in TextBefore, m \in Middles, u2 \in TextAfter}

SurroundDocuments == SurroundCompositions \cup {Chomp(d) : d \in SurroundCompositions}

InitSurround ==
  /\ exists = TRUE
  /\ file \in SurroundDocuments
  /\ mode = 420
  /\ inv \in {EmptyInventory, FullInventory}
  /\ hist = <<>>
  /\ before = file
  /\ wanted = file
  /\ NoValidation /\ NoSsh /\ NoConfig

SpecSurround == InitSurround /\ [][Next]_vars

(***************************************************************************)
(* update_config and save_config of MentatConfig, one statement of         *)
(* save_config at a time.  wpc is the statement save_config is at.         *)
(***************************************************************************)
\* the modes of a ~/.mentat that was there before: 0o700, 0o755
ExistingDirModes == {owner_only, world_readable_dir}

\* what a configuration saved earlier left, or no file, in no directory or in
\* one that something else made
InitStore ==
  /\ NoDocument /\ NoValidation /\ NoSsh
  /\ config \in PreviousConfigs
  /\ config_file \in
       (IF config.configured
          THEN {[dir_mode |-> owner_only, mode |-> private_mode, content |-> config]}
          ELSE {[NoConfigFile EXCEPT !.dir_mode = d] : d \in {Absent} \cup ExistingDirModes})
  /\ wpc = "idle"
  /\ wizard = [NoPass EXCEPT !.at_call = [config |-> config, file |-> config_file]]

\* update_config (lines 359-362): self.config[key] = value, then save_config
\* is entered
UpdateConfig ==
  /\ wpc \in {"idle", "returned"}
  /\ \/ \E value \in BOOLEAN : config' = [config EXCEPT !.auto_sync = value]
     \/ \E value \in {"main", "dev"} : config' = [config EXCEPT !.sync_branch = value]
     \/ \E value \in {"private", "public"} : config' = [config EXCEPT !.repo_type = value]
  /\ wpc' = "mkdir"
  /\ wizard' = [wizard EXCEPT !.ret = "none",
                              !.at_call = [config |-> config, file |-> config_file]]
  /\ UNCHANGED <<config_file, docvars, valvars, sshvars>>

\* "except Exception as e: ... return False" (lines 59-61)
SaveFails ==
  /\ wpc' = "returned"
  /\ wizard' = [wizard EXCEPT !.ret = "False"]

\* line 49
SaveMkdir ==
  /\ wpc = "mkdir"
  /\ \/ config_file' = MakeConfigDir(config_file) /\ wpc' = "open" /\ UNCHANGED wizard
     \/ UNCHANGED config_file /\ SaveFails
  /\ UNCHANGED <<config, docvars, valvars, sshvars>>

\* line 52
SaveOpen ==
  /\ wpc = "open"
  /\ \/ \E created \in CreatedModes :
          /\ config_file' = OpenConfigFile(config_file, created)
          /\ wpc' = "dump" /\ UNCHANGED wizard
     \/ UNCHANGED config_file /\ SaveFails
  /\ UNCHANGED <<config, docvars, valvars, sshvars>>

\* line 53, and the end of the with block
SaveDump ==
  /\ wpc = "dump"
  /\ \/ config_file' = DumpConfig(config_file, config) /\ wpc' = "chmod" /\ UNCHANGED wizard
     \/ UNCHANGED config_file /\ SaveFails
  /\ UNCHANGED <<config, docvars, valvars, sshvars>>

\* lines 56-58
SaveChmod ==
  /\ wpc = "chmod"
  /\ \/ /\ config_file' = ChmodConfigFile(config_file)
        /\ wpc' = "returned"
        /\ wizard' = [wizard EXCEPT !.ret = "True"]
     \/ UNCHANGED config_file /\ SaveFails
  /\ UNCHANGED <<config, docvars, valvars, sshvars>>

NextStore == UpdateConfig \/ SaveMkdir \/ SaveOpen \/ SaveDump \/ SaveChmod

SpecStore == InitStore /\ [][NextStore]_vars

(***************************************************************************)
(* The public operations that start external programs, each called once:   *)
(* setup_ssh_interactive, check_ssh_setup, ensure_github_in_known_hosts    *)
(* and _test_repo_access.  A program that subprocess.run starts without a  *)
(* timeout may never exit, and the call then never returns.                *)
(***************************************************************************)
HostsFile(text) == [mode |-> public_mode, content |-> text]

\* the worlds of the calls: no key or one key pair
CallLayouts ==
  { [priv |-> NoKeys, pub |-> NoKeys],
    [priv |-> [NoKeys EXCEPT !["ed25519"] = OldKey(private_mode)],
     pub |-> [NoKeys EXCEPT !["ed25519"] = OldKey(public_mode)]] }

InitCalls ==
  /\ NoDocument /\ NoValidation /\ NoConfig
  /\ \E layout \in CallLayouts :
       /\ priv = layout.priv /\ pub = layout.pub
       /\ ssh_dir \in (IF layout.priv = NoKeys THEN {Absent} ELSE {}) \cup {owner_only}
  /\ agent \in {NoAgent, RunningAgent}
  /\ frame = NoFrame /\ ssh_ret = "none" /\ log = <<>>
  /\ pc \in {"called", "check", "known_hosts", "ls-remote"}
  /\ known_hosts \in (IF pc = "known_hosts"
                        THEN {NoFile, HostsFile("other"), HostsFile("github.com")}
                        ELSE {NoFile})

\* check_ssh_setup (lines 28-56), called by itself: it returns the status
CheckSshSetup ==
  /\ pc = "check"
  /\ \E result \in ProbeResults(priv, agent) :
       log' = Append(log, [Event("inspect", _verify_github_auth(result)) EXCEPT
                             !.probe = result,
                             !.reachable = _check_ssh_agent(agent)])
  /\ Return("status")
  /\ UNCHANGED <<ssh_dir, known_hosts, priv, pub, agent, frame, docvars, valvars, cfgvars>>

\* self.ssh_dir.mkdir(mode=0o700, exist_ok=True)
MadeSshDir == IF ssh_dir = Absent THEN owner_only ELSE ssh_dir

\* ensure_github_in_known_hosts (lines 441-472)
EnsureGithubInKnownHosts ==
  /\ pc = "known_hosts"
  /\ \/ \* mkdir raises
        /\ Return("False")
        /\ UNCHANGED <<ssh_dir, known_hosts, log>>
     \/ \* "github.com" is in known_hosts
        /\ known_hosts.content = "github.com"
        /\ ssh_dir' = MadeSshDir
        /\ Return("True")
        /\ UNCHANGED <<known_hosts, log>>
     \/ \* ssh-keyscan exits: with a key, which is appended, or without
        /\ known_hosts.content # "github.com"
        /\ ssh_dir' = MadeSshDir
        /\ \E scanned \in BOOLEAN :
             /\ log' = Append(log, Event("ssh-keyscan", scanned))
             /\ known_hosts' = IF scanned THEN HostsFile("github.com") ELSE known_hosts
             /\ Return(IF scanned THEN "True" ELSE "False")
  /\ UNCHANGED <<priv, pub, agent, frame, docvars, valvars, cfgvars>>

\* _test_repo_access (mentat_config.py, lines 294-307): git ls-remote with
\* timeout=10; a timeout is an exception, and False is returned
_test_repo_access ==
  /\ pc = "ls-remote"
  /\ \E reached \in BOOLEAN :
       /\ log' = Append(log, Event("git ls-remote", reached))
       /\ Return(IF reached THEN "True" ELSE "False")
  /\ UNCHANGED <<ssh_dir, known_hosts, priv, pub, agent, frame, docvars, valvars, cfgvars>>

\* the call is in the subprocess.run of a program that does not exit
Blocked(command) ==
  /\ pc' = "blocked"
  /\ log' = Append(log, Event(command, FALSE))

\* subprocess.run without timeout, and a program that never exits
NeverExits ==
  /\ \/ \* "ssh-add -l" of _get_loaded_keys (line 383), run when an agent answers
        /\ pc \in {"called", "check"} /\ _check_ssh_agent(agent)
        /\ Blocked("ssh-add -l never exits")
        /\ UNCHANGED <<ssh_dir, priv>>
     \/ \* ssh-keygen (line 188), after mkdir and touch
        /\ pc = "try"
        /\ Blocked("ssh-keygen never exits")
        /\ ssh_dir' = MadeSshDir
        /\ priv' = IF KeyExists(frame.key_type) THEN priv
                   ELSE [priv EXCEPT ![frame.key_type] =
                           [mode |-> private_mode, content |-> "empty"]]
     \/ \* "ssh-agent -s" of _start_ssh_agent (line 340), run when no agent answers
        /\ pc = "finally" \/ (pc = "existing" /\ \E t \in KeyTypes : KeyExists(t))
        /\ ~_check_ssh_agent(agent)
        /\ Blocked("ssh-agent never exits")
        /\ UNCHANGED <<ssh_dir, priv>>
     \/ \* "ssh-add <key>" of _add_key_to_agent (line 369), run when one answers
        /\ pc = "finally" \/ (pc = "existing" /\ \E t \in KeyTypes : KeyExists(t))
        /\ _check_ssh_agent(agent)
        /\ Blocked("ssh-add never exits")
        /\ UNCHANGED <<ssh_dir, priv>>
     \/ \* ssh-keyscan (line 457)
        /\ pc = "known_hosts" /\ known_hosts.content # "github.com"
        /\ Blocked("ssh-keyscan never exits")
        /\ ssh_dir' = MadeSshDir
        /\ UNCHANGED priv
  /\ UNCHANGED <<known_hosts, pub, agent, frame, ssh_ret, docvars, valvars, cfgvars>>

NextCalls ==
  \/ NextKey
  \/ CheckSshSetup
  \/ EnsureGithubInKnownHosts
  \/ _test_repo_access
  \/ NeverExits

\* the caller's thread runs on, and the prompts are answered
SpecCalls == InitCalls /\ [][NextCalls]_vars /\ WF_vars(NextCalls)

(***************************************************************************)
(* Install and uninstall of the components mentat and mentat_dev, on an    *)
(* install directory ~/.claude.  The files are numbered in the order the   *)
(* scanners list them: the command of mentat-extensions/commands is 1; the *)
(* agents are 1 agent-mentat-updater.md and 2 agent-syncer.md; the tracked *)
(* scripts are 1 sync-orchestrator.sh, 2 test-ssh.sh, 3 health-monitor.sh, *)
(* 4 conflict-resolver.sh and 5 version-bump.sh.                           *)
(***************************************************************************)
\* how many installs and uninstalls a run makes
MaxInstalls == 4

\* what MentatExtensionsComponent._install copies (lines 67-105)
MentatFiles == [commands |-> {1}, agents |-> {2}, scripts |-> {1, 3, 4}]

\* what MentatDevComponent._install copies (lines 70-98)
MentatDevFiles == [commands |-> {}, agents |-> {1}, scripts |-> {5}]

\* the elements of a set of numbers, in ascending order
RECURSIVE Ascending(_)
Ascending(S) == IF S = {} THEN <<>> ELSE <<Min(S)>> \o Ascending(S \ {Min(S)})

Range(listing) == {listing[i] : i \in 1..Len(listing)}

\* what the scanners find after files were copied
WithFiles(I, files) ==
  [commands |-> Ascending(Range(I.commands) \cup files.commands),
   agents |-> Ascending(Range(I.agents) \cup files.agents),
   scripts |-> Ascending(Range(I.scripts) \cup files.scripts)]

\* what the scanners find after files were removed
WithoutFiles(I, files) ==
  [commands |-> Ascending(Range(I.commands) \ files.commands),
   agents |-> Ascending(Range(I.agents) \ files.agents),
   scripts |-> Ascending(Range(I.scripts) \ files.scripts)]

\* nothing is installed; ~/.mentat/config.json holds a configuration, so
\* that _post_install does not enter configure_interactive
InitInstall ==
  /\ exists \in BOOLEAN
  /\ file \in (IF exists THEN {<<>>, <<USR, NL>>} ELSE {<<>>})
  /\ mode = (IF exists THEN 420 ELSE 0)
  /\ inv = EmptyInventory
  /\ hist = <<>>
  /\ before = file
  /\ wanted = file
  /\ NoValidation /\ NoSsh
  /\ config = [DefaultConfig EXCEPT !.dotfiles_repo = OldSshUrl, !.configured = TRUE]
  /\ config_file = [dir_mode |-> owner_only, mode |-> private_mode, content |-> config]
  /\ wpc = "idle" /\ wizard = NoPass

\* MentatExtensionsComponent._install and _post_install (lines 51-168)
InstallMentat ==
  /\ Len(hist) < MaxInstalls
  /\ inv' = WithFiles(inv, MentatFiles)
  /\ before' = file
  /\ wanted' = UpdatedContent(file, inv')
  /\ \/ \* update_claude_md wrote the document
        /\ exists' = TRUE /\ file' = wanted' /\ mode' = 420
        /\ Record("install mentat", TRUE, TRUE)
     \/ \* update_claude_md returned False: a warning is logged (lines 138-141)
        /\ UNCHANGED <<exists, file, mode>>
        /\ Record("install mentat", TRUE, FALSE)
  /\ UNCHANGED <<valvars, sshvars, cfgvars>>

\* MentatExtensionsComponent.uninstall (lines 170-213)
UninstallMentat ==
  /\ Len(hist) < MaxInstalls
  /\ inv' = [WithoutFiles(inv, MentatFiles) EXCEPT !.commands = <<>>]
  /\ before' = file
  /\ wanted' = IF exists /\ RemoveWrites(file) THEN RemovedContent(file) ELSE file
  /\ file' = wanted'
  /\ Record("uninstall mentat", TRUE, exists /\ RemoveWrites(file))
  /\ UNCHANGED <<exists, mode, valvars, sshvars, cfgvars>>

\* MentatDevComponent._install and _post_install (lines 58-116); the
\* component depends on mentat
InstallMentatDev ==
  /\ Len(hist) < MaxInstalls
  /\ MentatFiles.agents \subseteq Range(inv.agents)
  /\ inv' = WithFiles(inv, MentatDevFiles)
  /\ before' = file /\ wanted' = file
  /\ Record("install mentat_dev", TRUE, FALSE)
  /\ UNCHANGED <<exists, file, mode, valvars, sshvars, cfgvars>>

\* MentatDevComponent.uninstall (lines 118-149)
UninstallMentatDev ==
  /\ Len(hist) < MaxInstalls
  /\ inv' = WithoutFiles(inv, MentatDevFiles)
  /\ before' = file /\ wanted' = file
  /\ Record("uninstall mentat_dev", TRUE, FALSE)
  /\ UNCHANGED <<exists, file, mode, valvars, sshvars, cfgvars>>

NextInstall == InstallMentat \/ UninstallMentat \/ InstallMentatDev \/ UninstallMentatDev

SpecInstall == InitInstall /\ [][NextInstall]_vars

(***************************************************************************)
(* The claims.                                                             *)
(***************************************************************************)
Called == Len(hist) > 0

\* the last call made
Last == hist[Len(hist)]

\* the call before the last
Previous == hist[Len(hist) - 1]

Succeeded(call, name) == call.op = name /\ call.ret

\* the number of places where pat is found
Occurrences(content, pat) == Cardinality(FindAll(content, pat, 0))

\* the orphan sentinel lines
SentinelKinds == {"intro", "dot", "ext"}

SentinelLines(content) == {i \in 1..Len(content) : content[i].k \in SentinelKinds}

\* C1. Idempotence: a second update_claude_md in a row, with the same
\* inventory, leaves the document the first one wrote as it is.
C1_UpsertIdempotent ==
  (Len(hist) >= 2 /\ Succeeded(Previous, "update") /\ Succeeded(Last, "update"))
    => file = before

\* C2. Single block: when update_claude_md returned True the document holds
\* exactly one start divider followed by the header line.
C2_SingleBlock ==
  (Called /\ Succeeded(Last, "update")) => Occurrences(file, start_pattern) = 1

\* C3. Round-trip removal: after update_claude_md and then
\* remove_mentat_section the document holds no start divider + header and no
\* orphan sentinel line.
C3_RoundTripRemoval ==
  (Len(hist) >= 2 /\ Succeeded(Previous, "update") /\ Succeeded(Last, "remove"))
    => Occurrences(file, start_pattern) = 0 /\ SentinelLines(file) = {}

\* C4. Orphan healing: from a document of two proper blocks and one orphan
\* fragment, update_claude_md leaves exactly one block, and no sentinel line
\* but the two of that block.
C4_OrphanHealing ==
  (Len(hist) = 1 /\ before \in HealDocuments /\ Succeeded(Last, "update"))
    => /\ Occurrences(file, start_pattern) = 1
       /\ Cardinality(SentinelLines(file)) = 2

\* C5. Blank-line bound: no document that update_claude_md or
\* remove_mentat_section wrote holds four newlines in a row.
C5_BlankLineBound ==
  (Called /\ Last.wrote /\ Last.ret)
    => ~Contains(file, <<{"nl"}, {"nl"}, {"nl"}, {"nl"}>>)

\* C6. remove_mentat_section is the cleanup pass alone: it leaves what
\* _clean_duplicate_sections makes of the document.
C6_RemoveIsCleanup ==
  (Called /\ Succeeded(Last, "remove")) => file = _clean_duplicate_sections(before)

\* C7. After a write by update_claude_md or remove_mentat_section that
\* returned True, the mode of the document is 0o644.
C7_ModeAfterWrite ==
  (Called /\ Last.wrote /\ Last.ret) => mode = 420

SectionWritten ==
  \E i \in 0..(Len(file) - Len(_generate_mentat_section(inv))) :
    SubSeq(file, i + 1, i + Len(_generate_mentat_section(inv)))
      = _generate_mentat_section(inv)

\* in section, the listing under the heading line is the placeholder line
\* alone when items is empty, and one line for each item, without the
\* placeholder, when it is not
ListingRendered(section, heading, placeholder, items, kind) ==
  \E i \in 1..Len(section) :
    /\ section[i] = heading
    /\ section[i + 1] = NL
    /\ IF items = <<>>
         THEN section[i + 2] = placeholder /\ section[i + 3] = NL /\ section[i + 4] = NL
         ELSE /\ \A j \in 1..Len(section) : section[j] # placeholder
              /\ \A n \in 1..Len(items) :
                   section[i + 2 * n] = [k |-> kind, n |-> items[n]]
                     /\ section[i + 2 * n + 1] = NL
              /\ section[i + 2 * Len(items) + 2] = NL

\* C9. Empty-inventory rendering: the block update_claude_md writes lists each
\* of commands, agents and scripts by itself: the placeholder line for an
\* empty inventory, its items for another, whatever the other two hold.
C9_PlaceholderRendering ==
  (Called /\ Succeeded(Last, "update"))
    => /\ SectionWritten
       /\ ListingRendered(_generate_mentat_section(inv), EXT, NOCMD, inv.commands, "cmd")
       /\ ListingRendered(_generate_mentat_section(inv), AGH, NOAGT, inv.agents, "agt")
       /\ ListingRendered(_generate_mentat_section(inv), SCH, NOSCR, inv.scripts, "scr")

\* update_claude_md wrote a block for an inventory with commands and no
\* agents and scripts
C9_Witness ==
  /\ Called /\ Succeeded(Last, "update")
  /\ inv.commands # <<>> /\ inv.agents = <<>> /\ inv.scripts = <<>>
  /\ \E i \in 1..Len(file) : file[i] = NOAGT
  /\ \E i \in 1..Len(file) : file[i] = NOSCR
  /\ \E i \in 1..Len(file) : file[i] = CmdLine(1)

\* the account-name grammar
AccountNameGrammar(u) ==
  /\ Len(u) >= 1 /\ Len(u) <= 39
  /\ \A i \in 1..Len(u) : u[i] \in AlphaNum \cup {"-"}
  /\ u[1] # "-" /\ u[Len(u)] # "-"
  /\ \A i \in 1..Len(u) :
       u[i] \notin {";", "|", "&", "$", "`", "\\", "\"", "'", "\n", "\r", "<", ">", "/"}
  /\ \A i \in 1..(Len(u) - 1) : ~(u[i] = "." /\ u[i + 1] = ".")

WithoutScheme(url) ==
  IF StartsWith(url, <<"h", "t", "t", "p", "s", ":", "/", "/">>)
    THEN SubSeq(url, 9, Len(url))
  ELSE IF StartsWith(url, <<"g", "i", "t", "@">>) THEN SubSeq(url, 5, Len(url))
  ELSE url

\* the repository-URL grammar: the whole string is one of the two shapes
RepoUrlGrammar(url) ==
  /\ RepoUrlShape(url, GitPrefix) \/ RepoUrlShape(url, HttpsPrefix)
  /\ ~HasSubstring(url, <<".", ".">>)
  /\ ~HasSubstring(WithoutScheme(url), <<"/", "/">>)

\* C11. _validate_repo_url returns True exactly for the strings that are, as
\* a whole, git@github.com:<account>/<repo>.git or
\* https://github.com/<account>/<repo>.git without ".." and without "//"
\* after the scheme; it rejects "https://github.com/a/../b.git".
C11_RepoUrlGrammar ==
  validator = "url"
    => /\ verdict <=> RepoUrlGrammar(input)
       /\ input = TraversalUrl => ~verdict

\* C12. For a URL that _validate_repo_url accepted, configure_interactive
\* has recorded the auth_method "ssh" exactly when the URL starts with git@
\* and "https" exactly when it starts with https://, whatever was configured
\* before.
C12_TransportInference ==
  wizard.accepted
    => /\ config.dotfiles_repo = wizard.repo_url
       /\ config.auth_method = "ssh"
            <=> StartsWith(wizard.repo_url, <<"g", "i", "t", "@">>)
       /\ config.auth_method = "https"
            <=> StartsWith(wizard.repo_url, <<"h", "t", "t", "p", "s", ":", "/", "/">>)

\* a git@ URL was accepted in a configuration that was saved with https
C12_Witness ==
  /\ wizard.accepted /\ wpc = "returned"
  /\ config_file.content.auth_method = "https"
  /\ StartsWith(wizard.repo_url, GitPrefix)
  /\ config.auth_method = "ssh"

\* C13. _validate_email returns True only for a string of 1 to 254
\* characters of the shape local@domain.tld that holds none of the
\* characters and substrings the account-name validator rejects.
C13_EmailGrammar ==
  (validator = "email" /\ verdict)
    => /\ input # <<>> /\ Len(input) <= 254
       /\ EmailShape(input)
       /\ \A char \in dangerous_chars : ~HasSubstring(input, char)

\* C14. When ssh-keygen exited with a non-zero status, at the return of the
\* call neither key file exists, the call returned False, and after the
\* failed ssh-keygen no agent was started, no key registered and no key shown.
C14_KeygenFailureCleansUp ==
  (frame.outcome = "keygen_failed" /\ pc = "returned")
    => /\ priv[frame.key_type] = NoFile /\ pub[frame.key_type] = NoFile
       /\ ssh_ret = "False"
       /\ \A i \in 1..Len(log) : \A j \in (i + 1)..Len(log) :
            (log[i].ev = "ssh-keygen" /\ ~log[i].ok)
              => log[j].ev \notin {"ssh-agent", "ssh-add", "guide"}

\* C15. After "Overwrite existing key?" was answered no, the key file is as
\* it was and neither touch nor ssh-keygen follows.
C15_OverwriteRefusal ==
  \A j \in 1..Len(log) :
    (log[j].ev = "overwrite?" /\ ~log[j].ok)
      => /\ priv[log[j].key_type] = log[j].file
         /\ \A i \in (j + 1)..Len(log) : log[i].ev \notin {"touch", "ssh-keygen"}

\* the overwrite of an existing key was refused and the flow has returned
C15_Witness ==
  /\ pc = "returned"
  /\ \E j \in 1..Len(log) :
       /\ log[j].ev = "overwrite?" /\ ~log[j].ok
       /\ log[j].file = OldKey(private_mode)
  /\ \E i \in 1..Len(log) : log[i].ev = "ssh-add"

\* C16. When the private key file is created and when ssh-keygen is started,
\* ~/.ssh has the mode 0o700.
C16_RestrictiveDirectory ==
  \A i \in 1..Len(log) :
    log[i].ev \in {"touch", "ssh-keygen"} => log[i].dir_mode = owner_only

\* C17. After a successful ssh-keygen and before the agent step, the private
\* key file has no group or other bits and the public key file no bits
\* outside 0o644.
C17_KeyFileModes ==
  (pc = "finally" /\ frame.outcome = "generated")
    => /\ BitAnd(priv[frame.key_type].mode, group_other_bits) = 0
       /\ pub[frame.key_type].mode # Absent
       /\ BitAnd(pub[frame.key_type].mode, 511 - public_mode) = 0

\* ssh-keygen left the private key file with 0o644 and it has 0o600 now
C17_Witness ==
  /\ pc = "finally" /\ frame.outcome = "generated"
  /\ log[Len(log)].ev = "ssh-keygen"
  /\ log[Len(log)].file.mode = public_mode
  /\ priv[frame.key_type].mode = private_mode

\* C18. _verify_github_auth returns True exactly when the probe ran and its
\* stderr holds "successfully authenticated", whatever its exit status.
C18_RemoteVerificationQuirk ==
  \A i \in 1..Len(log) :
    log[i].ev \in {"inspect", "verify"}
      => (log[i].ok <=>
            /\ log[i].probe.raised = "no"
            /\ \E k \in 1..Len(log[i].probe.stderr) :
                 log[i].probe.stderr[k] = success_text)

\* a probe that exited with 255 and said "successfully authenticated" was
\* taken as verified, and one that timed out as not verified
C18_Witness ==
  /\ \E i \in 1..Len(log) :
       /\ log[i].ev = "verify" /\ log[i].ok
       /\ log[i].probe.returncode = 255
  /\ \E i \in 1..Len(log) :
       /\ log[i].ev = "inspect" /\ ~log[i].ok
       /\ log[i].probe.raised = "TimeoutExpired"

\* C19. No state of the flow is skipped: ssh-add is run for a key that
\* exists only, and the key is shown for GitHub and the remote host probed
\* only after an ssh-add that succeeded.
C19_NoSkippedState ==
  \A i \in 1..Len(log) :
    /\ log[i].ev = "ssh-add" => log[i].key_exists
    /\ log[i].ev \in {"guide", "verify"}
         => \E j \in 1..(i - 1) : log[j].ev = "ssh-add" /\ log[j].ok

\* C20. ssh-add <key> runs with an agent reachable only; ssh-agent is
\* started only when none is reachable and its SSH_AUTH_SOCK and
\* SSH_AGENT_PID are then in the environment; after an ssh-agent that could
\* not be started no ssh-add follows.
C20_AgentBeforeRegistration ==
  /\ \A i \in 1..Len(log) :
       /\ log[i].ev = "ssh-add" => log[i].reachable
       /\ log[i].ev = "ssh-agent" => ~log[i].reachable
       /\ (log[i].ev = "ssh-agent" /\ ~log[i].ok /\ i < Len(log))
            => log[i + 1].ev # "ssh-add"
  /\ agent.started > 0
       => /\ agent.environ.SSH_AUTH_SOCK = <<Socket(agent.started)>>
          /\ agent.environ.SSH_AGENT_PID = <<Pid(agent.started)>>

\* the account of a URL: what stands between "github.com:" or "github.com/"
\* and the next "/"
AccountOf(url) ==
  LET front == IF StartsWith(url, GitPrefix) THEN Len(GitPrefix) ELSE Len(HttpsPrefix)
      slashes == {i \in (front + 1)..Len(url) : url[i] = "/"}
  IN IF slashes = {} THEN SubSeq(url, front + 1, Len(url))
     ELSE SubSeq(url, front + 1,
                 (CHOOSE i \in slashes : \A k \in slashes : i <= k) - 1)

\* C29. The account of every URL that _validate_repo_url accepts is accepted
\* by _validate_github_username.
C29_ValidatorsAgree ==
  (validator = "url" /\ verdict) => _validate_github_username(AccountOf(input))

\* the lines that are the user's
UserKinds == {"usr", "sc", "sdiv"}

\* how many times the line t stands in content
CountOf(content, t) == Cardinality({i \in 1..Len(content) : content[i] = t})

\* C23. The document _clean_duplicate_sections returns holds no start
\* divider + newline + header.
C23_CleanupRemovesEveryBlock ==
  (Called /\ Last.op = "clean") => ~Contains(wanted, start_pattern)

\* C26. The document _clean_duplicate_sections returns is not longer than
\* its input and holds no line of the user more often than the input.
C26_CleanupOnlyDeletes ==
  (Called /\ Last.op = "clean")
    => /\ PyLen(wanted) <= PyLen(before)
       /\ \A i \in 1..Len(wanted) :
            wanted[i].k \in UserKinds
              => CountOf(wanted, wanted[i]) <= CountOf(before, wanted[i])

\* the user's lines of a document that stand on a line of their own, in order
IntactUserLines(content) ==
  LET alone(i) == /\ content[i].k = "usr"
                  /\ i = 1 \/ content[i - 1] = NL
                  /\ i = Len(content) \/ content[i + 1] = NL
      at == {i \in 1..Len(content) : alone(i)}
      RECURSIVE Collect(_)
      Collect(i) == IF i > Len(content) THEN <<>>
                    ELSE IF i \in at THEN <<content[i]>> \o Collect(i + 1)
                    ELSE Collect(i + 1)
  IN Collect(1)

\* s can be had from t by leaving elements of t out
RECURSIVE IsSubsequence(_, _)
IsSubsequence(s, t) ==
  IF s = <<>> THEN TRUE
  ELSE IF t = <<>> THEN FALSE
  ELSE IF Head(s) = Head(t) THEN IsSubsequence(Tail(s), Tail(t))
  ELSE IsSubsequence(s, Tail(t))

\* C27. Surrounding content is preserved: on a document made of user text,
\* blocks or orphan fragments that each end with their Component Count line,
\* and user text again, a call of update_claude_md or remove_mentat_section
\* that returns True leaves a document that holds every line of the user's
\* text, each still a line of its own, in the order they had.
C27_SurroundingPreserved ==
  (Len(hist) = 1 /\ Last.ret) => IsSubsequence(IntactUserLines(before), IntactUserLines(file))

\* get_config (lines 355-357): a copy of self.config
get_config(cfg) == cfg

\* get_repo_url (lines 347-349): None is the empty record
get_repo_url(cfg) == IF cfg.configured THEN [url |-> cfg.dotfiles_repo] ELSE [none |-> TRUE]

\* C30. An abandoned configuration changes nothing: when configure_interactive
\* has returned False, get_config and get_repo_url give what they gave before
\* the call, and the config file on disk is as it was before the call.
C30_AbandonedChangesNothing ==
  (wpc = "returned" /\ wizard.ret = "False") =>
     /\ get_config(config) = get_config(wizard.at_call.config)
     /\ get_repo_url(config) = get_repo_url(wizard.at_call.config)
     /\ config_file = wizard.at_call.file

\* C25. Config store confidentiality: whenever ~/.mentat/config.json holds a
\* configuration that save_config wrote, between the write and the chmod
\* included, the file's mode is 0o600 and the directory's mode is 0o700.
C25_StoreConfidential ==
  (config_file.mode # Absent /\ config_file.content # TruncatedJson) =>
     /\ config_file.mode = private_mode
     /\ config_file.dir_mode = owner_only

\* the steps of the log that make ~/.ssh or a key file or run ssh-keygen
KeyEffects == {i \in 1..Len(log) : log[i].ev \in {"touch", "ssh-keygen"}}

\* the URLs configure_interactive can come to hold in repo_url
TypedUrls ==
  {Strip(typed) : typed \in CustomUrls}
  \cup {front \o Strip(typed) \o <<"/">> \o (IF Strip(name) = <<>> THEN Dotfiles ELSE Strip(name))
          \o DotGit :
          front \in {GitPrefix, HttpsPrefix}, typed \in WizardUsernames, name \in WizardRepoNames}

\* those of them that _validate_repo_url accepts
AcceptedUrls == {url \in TypedUrls : _validate_repo_url(url)}

\* the addresses that _validate_email accepts
AcceptedEmails == {email \in FlowEmails : _validate_email(email)}

\* C22. Validation precedes every external effect: git ls-remote is run, and
\* config['dotfiles_repo'] is assigned, only with a URL that _validate_repo_url
\* accepts; ssh-keygen is run, and ~/.ssh or a key file made, only for an
\* email that _validate_email accepts.
C22_ValidationPrecedesEffects ==
  /\ wpc \in {"access", "retry", "continue", "prefs"} => wizard.repo_url \in AcceptedUrls
  /\ config.dotfiles_repo # wizard.at_call.config.dotfiles_repo
       => config.dotfiles_repo \in AcceptedUrls
  /\ (pc \in {"try", "finally"} \/ KeyEffects # {}) => frame.email \in AcceptedEmails

\* after an accepted URL and a failed git ls-remote, the SSH setup has run
\* ssh-keygen for an accepted email
C22_Witness ==
  /\ wpc = "retry"
  /\ config.dotfiles_repo = wizard.repo_url
  /\ config.dotfiles_repo # wizard.at_call.config.dotfiles_repo
  /\ \E i \in KeyEffects : log[i].ev = "ssh-keygen" /\ log[i].ok
  /\ frame.email \in AcceptedEmails

\* some call of _verify_github_auth of this run returned True
ProbeSucceeded == \E i \in 1..Len(log) : log[i].ev \in {"inspect", "verify"} /\ log[i].ok

\* C28. Success means verified: setup_ssh_interactive returns True only if a
\* call of _verify_github_auth made during the run returned True, and a run
\* that ends with no such call, an exception included, returns False.
C28_SuccessMeansVerified ==
  pc = "returned" =>
     /\ ssh_ret = "True" => ProbeSucceeded
     /\ ~ProbeSucceeded => ssh_ret = "False"

\* C21. Bounded external calls: the external programs are run with a timeout,
\* so that a call of setup_ssh_interactive, check_ssh_setup,
\* ensure_github_in_known_hosts or _test_repo_access returns in the end, also
\* when a program that was started never exits.
C21_BoundedCalls == <>(pc = "returned")

\* block stands in content, line for line
IsInfix(block, content) ==
  \E i \in 1..(Len(content) - Len(block) + 1) :
     SubSeq(content, i, i + Len(block) - 1) = block

\* C24. The block tracks the inventory: after installs and uninstalls of
\* mentat and mentat_dev that succeeded, a generated block that CLAUDE.md
\* holds lists the commands, agents and tracked scripts that are installed,
\* and its Component Count line counts them.
C24_BlockTracksInventory ==
  (Called /\ Contains(file, start_pattern)) =>
     IsInfix(Tail(_generate_mentat_section(inv)), file)

=============================================================================
